---- MODULE Spec2Model ----
(***************************************************************************)
(* A model of rs_bom: the citation reference engine                        *)
(* (rs_bom/src/reference.rs), the Gutenberg corpus parser                  *)
(* (rs_bom/src/parsers.rs) and the corpus lookups (rs_bom/src/lib.rs).     *)
(***************************************************************************)
EXTENDS Integers, Sequences, FiniteSets, TLC

(***************************************************************************)
(* Bounds of the model.                                                    *)
(***************************************************************************)
MaxChapter == 2
MaxCanonChapter == 4
MaxVerse == 2
MaxClauses == 3
MaxCalls == 2

(***************************************************************************)
(* Option<T>: None is the empty sequence, Some(x) the one-element sequence.*)
(***************************************************************************)
None == <<>>
Some(x) == <<x>>
IsNone(o) == o = <<>>
IsSome(o) == o # <<>>
Unwrap(o) == o[1]

Min(a, b) == IF a <= b THEN a ELSE b
Max(a, b) == IF a >= b THEN a ELSE b

(***************************************************************************)
(* reference.rs: Work, BOOK_DATA (the rows the model uses), RangeType.     *)
(* A string is the sequence of its characters.                             *)
(***************************************************************************)
Work == {"OldTestament", "NewTestament", "BookOfMormon"}

BOOK_DATA ==
  << [work |-> "OldTestament", book_index |-> 0,
      long_name |-> <<"G", "e", "n", "e", "s", "i", "s">>,
      short_name |-> <<"G", "e", "n", ".">>],
     [work |-> "BookOfMormon", book_index |-> 0,
      long_name |-> <<"1", " ", "N", "e", "p", "h", "i">>,
      short_name |-> <<"1", " ", "N", "e", ".">>],
     [work |-> "BookOfMormon", book_index |-> 1,
      long_name |-> <<"2", " ", "N", "e", "p", "h", "i">>,
      short_name |-> <<"2", " ", "N", "e", ".">>] >>

StartEndVerse(c, s, e) == [tag |-> "StartEndVerse", chapter |-> c, start |-> s, end |-> e]
StartEndChapter(s, e) == [tag |-> "StartEndChapter", chapter |-> 0, start |-> s, end |-> e]

VerseRangeReference(rt, b, w) == [range_type |-> rt, book_index |-> b, work |-> w]

chapter_range(rt) ==
  IF rt.tag = "StartEndChapter" THEN <<rt.start, rt.end>> ELSE <<rt.chapter, rt.chapter>>

verse_range(rt) ==
  IF rt.tag = "StartEndChapter" THEN None ELSE Some(<<rt.start, rt.end>>)

(***************************************************************************)
(* usize::cmp, impl Ord for RangeType, impl Ord for VerseRangeReference.   *)
(***************************************************************************)
NatCmp(a, b) == IF a < b THEN "Less" ELSE IF a = b THEN "Equal" ELSE "Greater"

Then(first, second) == IF first = "Equal" THEN second ELSE first

RangeTypeCmp(x, y) ==
  CASE x.tag = "StartEndVerse" /\ y.tag = "StartEndVerse" ->
         Then(NatCmp(x.chapter, y.chapter),
              Then(NatCmp(x.start, y.start), NatCmp(x.end, y.end)))
    [] x.tag = "StartEndVerse" /\ y.tag = "StartEndChapter" ->
         Then(NatCmp(x.chapter, y.start), NatCmp(x.chapter, y.end))
    [] x.tag = "StartEndChapter" /\ y.tag = "StartEndVerse" ->
         Then(NatCmp(x.start, y.chapter), NatCmp(x.end, y.chapter))
    [] x.tag = "StartEndChapter" /\ y.tag = "StartEndChapter" ->
         Then(NatCmp(x.start, y.start), NatCmp(x.end, y.end))

RefCmp(a, b) ==
  Then(NatCmp(a.book_index, b.book_index), RangeTypeCmp(a.range_type, b.range_type))

IsLess(a, b) == RefCmp(a, b) = "Less"

(***************************************************************************)
(* self.refs.sort(): the stable sort of the standard library.  A slice of  *)
(* at most 20 elements is sorted by insertion; the library inserts from    *)
(* the back ("insert_head", before 1.81) or from the front ("insert_tail", *)
(* since 1.81).  Both are modelled; which one runs depends on the          *)
(* toolchain.                                                              *)
(***************************************************************************)
RECURSIVE LessPrefix(_, _)
\* the number of leading elements of s that are less than x
LessPrefix(x, s) ==
  IF s = <<>> \/ ~IsLess(Head(s), x) THEN 0 ELSE 1 + LessPrefix(x, Tail(s))

InsertHead(x, s) ==
  LET k == LessPrefix(x, s)
  IN SubSeq(s, 1, k) \o <<x>> \o SubSeq(s, k + 1, Len(s))

RECURSIVE SortInsertHead(_)
SortInsertHead(s) ==
  IF Len(s) < 2 THEN s ELSE InsertHead(Head(s), SortInsertHead(Tail(s)))

RECURSIVE GreaterSuffix(_, _)
\* the number of trailing elements of s that x is less than
GreaterSuffix(s, x) ==
  IF s = <<>> \/ ~IsLess(x, s[Len(s)]) THEN 0
  ELSE 1 + GreaterSuffix(SubSeq(s, 1, Len(s) - 1), x)

InsertTail(s, x) ==
  LET k == GreaterSuffix(s, x)
  IN SubSeq(s, 1, Len(s) - k) \o <<x>> \o SubSeq(s, Len(s) - k + 1, Len(s))

RECURSIVE SortInsertTail(_)
SortInsertTail(s) ==
  IF Len(s) < 2 THEN s
  ELSE InsertTail(SortInsertTail(SubSeq(s, 1, Len(s) - 1)), s[Len(s)])

SortImpls == {"insert_head", "insert_tail"}

Sort(s, impl) == IF impl = "insert_head" THEN SortInsertHead(s) ELSE SortInsertTail(s)

(***************************************************************************)
(* RangeCollection::canonicalize.  CanonStep is one iteration of the loop  *)
(* over self.refs.iter().skip(1); the loop state is new_refs and the       *)
(* current_* locals, log records which branch each iteration took.         *)
(***************************************************************************)
Current(r) ==
  [book |-> r.book_index, work |-> r.work,
   chap_range |-> chapter_range(r.range_type),
   verse_range |-> verse_range(r.range_type)]

Replace(st, combined, branch, r) ==
  [new_refs |-> SubSeq(st.new_refs, 1, Len(st.new_refs) - 1) \o <<combined>>,
   cur |-> Current(combined),
   log |-> Append(st.log, [branch |-> branch, r |-> r,
                           was |-> st.new_refs[Len(st.new_refs)], now |-> combined])]

Keep(st, r) ==
  [new_refs |-> st.new_refs,
   cur |-> st.cur,
   log |-> Append(st.log, [branch |-> "drop", r |-> r,
                           was |-> st.new_refs[Len(st.new_refs)],
                           now |-> st.new_refs[Len(st.new_refs)]])]

Push(st, r) ==
  [new_refs |-> Append(st.new_refs, r),
   cur |-> Current(r),
   log |-> Append(st.log, [branch |-> "push", r |-> r,
                           was |-> st.new_refs[Len(st.new_refs)], now |-> r])]

\* the chapter ranges overlap only when the new one starts inside the current
overlapping_chapter_ranges_inside(chap_range, current_chap_range) ==
  chap_range[1] >= current_chap_range[1] /\ chap_range[1] <= current_chap_range[2]

overlapping_chapter_ranges(chap_range, current_chap_range) ==
  chap_range[1] >= current_chap_range[1] /\ chap_range[1] <= current_chap_range[2] + 1

\* collapsible whatever the work
is_collapsible_any_work(r, cur) ==
  /\ r.book_index = cur.book
  /\ overlapping_chapter_ranges(chapter_range(r.range_type), cur.chap_range)

is_collapsible(r, cur) ==
  LET in_same_work == r.work = cur.work
      in_same_book == r.book_index = cur.book
  IN in_same_work /\ in_same_book
       /\ overlapping_chapter_ranges(chapter_range(r.range_type), cur.chap_range)

CanonStep(st, r) ==
  LET cur == st.cur
      chap_range == chapter_range(r.range_type)
      vrange == verse_range(r.range_type)
  IN IF ~is_collapsible(r, cur) THEN Push(st, r)
     ELSE IF IsNone(vrange) /\ IsNone(cur.verse_range) THEN
            Replace(st,
                    VerseRangeReference(
                      StartEndChapter(Min(cur.chap_range[1], chap_range[1]),
                                      Max(cur.chap_range[2], chap_range[2])),
                      cur.book, cur.work),
                    "chapter_union", r)
     ELSE IF IsSome(vrange) /\ IsSome(cur.verse_range) THEN
            LET vr == Unwrap(vrange)
                cvr == Unwrap(cur.verse_range)
            IN IF vr[1] >= cvr[1] /\ vr[1] <= cvr[2] + 1
               THEN Replace(st,
                            VerseRangeReference(
                              StartEndVerse(cur.chap_range[1],
                                            Min(cvr[1], vr[1]), Max(cvr[2], vr[2])),
                              cur.book, cur.work),
                            "verse_union", r)
               ELSE Push(st, r)
     ELSE IF IsNone(vrange)
          THEN Replace(st,
                       VerseRangeReference(StartEndChapter(chap_range[1], chap_range[2]),
                                           cur.book, cur.work),
                       "keep_new", r)
          ELSE Keep(st, r)

RECURSIVE CanonLoop(_, _, _)
CanonLoop(st, sorted, i) ==
  IF i > Len(sorted) THEN st ELSE CanonLoop(CanonStep(st, sorted[i]), sorted, i + 1)

\* the loop state, were the first clause never pushed to new_refs
CanonRunFirstNotPushed(sorted) ==
  LET st == CanonLoop([new_refs |-> <<sorted[1]>>, cur |-> Current(sorted[1]),
                       log |-> <<>>],
                      sorted, 2)
  IN [new_refs |-> Tail(st.new_refs), cur |-> st.cur, log |-> st.log]

\* the loop state after the whole loop, for a non-empty sorted self.refs
CanonRun(sorted) ==
  CanonLoop([new_refs |-> <<sorted[1]>>, cur |-> Current(sorted[1]), log |-> <<>>],
            sorted, 2)

(***************************************************************************)
(* lib.rs, reference.rs: validity, expansion and lookup against a corpus.  *)
(* bs is bom.books: a sequence of books, each with a sequence of chapters, *)
(* each with a sequence of verses.  Indices into Vec are 0-based usize.    *)
(***************************************************************************)
\* slice::get
Get(v, i) == IF i >= 0 /\ i < Len(v) THEN Some(v[i + 1]) ELSE None

\* Option::and_then
AndThen(o, f(_)) == IF IsNone(o) THEN None ELSE f(Unwrap(o))

GetChapter(book, i) == AndThen(book, LAMBDA b : Get(b.chapters, i))
GetVerse(chapter, i) == AndThen(chapter, LAMBDA c : Get(c.verses, i))

VerseReference(w, b, c, v) ==
  [work |-> w, book_index |-> b, chapter_index |-> c, verse_index |-> v]

\* a plausible slip: the 1-based indices used as 0-based ones
VerseReferenceIsValidUnshifted(r, bs) ==
  IF r.chapter_index = 0 \/ r.verse_index = 0 THEN FALSE
  ELSE IsSome(GetVerse(GetChapter(Get(bs, r.book_index), r.chapter_index),
                       r.verse_index))

\* VerseReference::is_valid
VerseReferenceIsValid(r, bs) ==
  IF r.chapter_index = 0 \/ r.verse_index = 0 THEN FALSE
  ELSE IsSome(GetVerse(GetChapter(Get(bs, r.book_index), r.chapter_index - 1),
                       r.verse_index - 1))

\* a plausible slip: only the first endpoint is looked up
RangeIsValidStartOnly(rr, bs) ==
  LET book == Get(bs, rr.book_index)
      rt == rr.range_type
  IN IF rt.tag = "StartEndChapter"
     THEN IF rt.start = 0 \/ rt.end = 0 THEN FALSE
          ELSE IsSome(GetChapter(book, rt.start - 1))
     ELSE IF rt.chapter = 0 \/ rt.start = 0 \/ rt.end = 0 THEN FALSE
          ELSE IsSome(GetVerse(GetChapter(book, rt.chapter - 1), rt.start - 1))

\* a plausible slip: only a clause of the Book of Mormon is looked up
RangeIsValidOwnWork(rr, bs) ==
  LET book == Get(bs, rr.book_index)
      rt == rr.range_type
  IN IF rr.work # "BookOfMormon" THEN FALSE
     ELSE IF rt.tag = "StartEndChapter"
     THEN IF rt.start = 0 \/ rt.end = 0 THEN FALSE
          ELSE /\ IsSome(GetChapter(book, rt.start - 1))
               /\ IsSome(GetChapter(book, rt.end - 1))
     ELSE IF rt.chapter = 0 \/ rt.start = 0 \/ rt.end = 0 THEN FALSE
          ELSE /\ IsSome(GetVerse(GetChapter(book, rt.chapter - 1), rt.start - 1))
               /\ IsSome(GetVerse(GetChapter(book, rt.chapter - 1), rt.end - 1))

\* VerseRangeReference::is_valid
RangeIsValid(rr, bs) ==
  LET book == Get(bs, rr.book_index)
      rt == rr.range_type
  IN IF rt.tag = "StartEndChapter"
     THEN IF rt.start = 0 \/ rt.end = 0 THEN FALSE
          ELSE /\ IsSome(GetChapter(book, rt.start - 1))
               /\ IsSome(GetChapter(book, rt.end - 1))
     ELSE IF rt.chapter = 0 \/ rt.start = 0 \/ rt.end = 0 THEN FALSE
          ELSE /\ IsSome(GetVerse(GetChapter(book, rt.chapter - 1), rt.start - 1))
               /\ IsSome(GetVerse(GetChapter(book, rt.chapter - 1), rt.end - 1))

\* RangeCollection::is_valid
CollectionIsValid(rs, bs) == \A i \in DOMAIN rs : RangeIsValid(rs[i], bs)

(***************************************************************************)
(* VerseRangeReferenceIter.  An iterator is the pair of counters; Next     *)
(* gives the item returned (an Option) and the counters after the call.    *)
(* "panic" marks an index out of bounds.                                   *)
(***************************************************************************)
NewIter == [current_chap_index |-> 0, current_verse_index |-> 0]

Returned(res, it) == [res |-> res, it |-> it, panic |-> FALSE]
Panicked(it) == [res |-> None, it |-> it, panic |-> TRUE]

\* impl Iterator for VerseRangeReferenceIter: next
IterNext(it, rr, bs) ==
  IF ~RangeIsValid(rr, bs) THEN Returned(None, it)
  ELSE IF rr.book_index >= Len(bs) THEN Panicked(it)
  ELSE
    LET book == bs[rr.book_index + 1]
        rt == rr.range_type
    IN IF rt.tag = "StartEndChapter"
       THEN IF it.current_chap_index + rt.start <= rt.end
            THEN IF it.current_chap_index + rt.start - 1 >= Len(book.chapters)
                 THEN Panicked(it)
                 ELSE LET chapter == book.chapters[it.current_chap_index + rt.start]
                          res == VerseReference("BookOfMormon", rr.book_index,
                                                it.current_chap_index + rt.start,
                                                it.current_verse_index + 1)
                          verse_index == it.current_verse_index + 1
                      IN IF verse_index > Len(chapter.verses)
                         THEN Returned(Some(res),
                                       [current_chap_index |-> it.current_chap_index + 1,
                                        current_verse_index |-> 0])
                         ELSE Returned(Some(res),
                                       [it EXCEPT !.current_verse_index = verse_index])
            ELSE Returned(None, it)
       ELSE IF it.current_verse_index + rt.start <= rt.end
            THEN Returned(Some(VerseReference("BookOfMormon", rr.book_index, rt.chapter,
                                              rt.start + it.current_verse_index)),
                          [it EXCEPT !.current_verse_index = it.current_verse_index + 1])
            ELSE Returned(None, it)

\* the items of one clause's iterator, taken until it returns None
RECURSIVE Drain(_, _, _, _)
Drain(it, rr, bs, acc) ==
  LET n == IterNext(it, rr, bs)
  IN IF n.panic THEN [data |-> acc, panic |-> TRUE]
     ELSE IF IsNone(n.res) THEN [data |-> acc, panic |-> FALSE]
     ELSE Drain(n.it, rr, bs, Append(acc, Unwrap(n.res)))

\* RangeCollection::verse_refs:
\* self.refs.iter().flat_map(|r| r.verse_refs(bom)).collect()
RECURSIVE verse_refs(_, _)
verse_refs(rs, bs) ==
  IF rs = <<>> THEN [data |-> <<>>, panic |-> FALSE]
  ELSE LET first == Drain(NewIter, Head(rs), bs, <<>>)
           rest == verse_refs(Tail(rs), bs)
       IN IF first.panic THEN first
          ELSE [data |-> first.data \o rest.data, panic |-> rest.panic]

VerseWithReference(title, r, text) == [book_title |-> title, reference |-> r, text |-> text]

\* BOM::verse_matching: None, Some(verse with reference), or a panic on an
\* index out of bounds
verse_matching(r, bs) ==
  IF VerseReferenceIsValid(r, bs)
  THEN IF \/ r.book_index >= Len(bs)
          \/ r.chapter_index - 1 >= Len(bs[r.book_index + 1].chapters)
          \/ r.verse_index - 1 >=
               Len(bs[r.book_index + 1].chapters[r.chapter_index].verses)
       THEN [found |-> None, panic |-> TRUE]
       ELSE LET book == bs[r.book_index + 1]
                verse == book.chapters[r.chapter_index].verses[r.verse_index]
                book_title == IF IsSome(book.short_title)
                              THEN Unwrap(book.short_title) ELSE book.title
            IN [found |-> Some(VerseWithReference(book_title, r, verse.text)),
                panic |-> FALSE]
  ELSE [found |-> None, panic |-> FALSE]

\* BOM::verses_matching:
\* range_collection.verse_refs(self).filter_map(|i| self.verse_matching(&i))
\* map_while in place of filter_map: stops at the first reference that does
\* not resolve
RECURSIVE MapWhileVerseMatching(_, _)
MapWhileVerseMatching(data, bs) ==
  IF data = <<>> THEN [out |-> <<>>, panic |-> FALSE]
  ELSE LET m == verse_matching(Head(data), bs)
       IN IF IsNone(m.found) THEN [out |-> <<>>, panic |-> m.panic]
          ELSE LET rest == MapWhileVerseMatching(Tail(data), bs)
               IN [out |-> m.found \o rest.out, panic |-> m.panic \/ rest.panic]

RECURSIVE FilterMapVerseMatching(_, _)
FilterMapVerseMatching(data, bs) ==
  IF data = <<>> THEN [out |-> <<>>, panic |-> FALSE]
  ELSE LET m == verse_matching(Head(data), bs)
           rest == FilterMapVerseMatching(Tail(data), bs)
       IN [out |-> m.found \o rest.out, panic |-> m.panic \/ rest.panic]

verses_matching(rs, bs) ==
  LET refsOut == verse_refs(rs, bs)
      matched == FilterMapVerseMatching(refsOut.data, bs)
  IN [out |-> matched.out, panic |-> refsOut.panic \/ matched.panic]

(***************************************************************************)
(* Strings: str::split, str::trim, str::find, usize::from_str and the      *)
(* Display of usize.                                                       *)
(***************************************************************************)
CITATION_DELIM == ";"
VERSE_CHUNK_DELIM == ","
CHAPTER_VERSE_DELIM == ":"
\* the en dash and the em dash are written "ndash" and "mdash"
RANGE_DELIM_CANONICAL == "ndash"
RANGE_DELIM_NON_CANONICAL1 == "-"
RANGE_DELIM_NON_CANONICAL2 == "mdash"

Digits == <<"0", "1", "2", "3", "4", "5", "6", "7", "8", "9">>
Letters ==
  {"A", "B", "C", "D", "E", "F", "G", "H", "I", "J", "K", "L", "M", "N", "O", "P", "Q",
   "R", "S", "T", "U", "V", "W", "X", "Y", "Z", "a", "b", "c", "d", "e", "f", "g", "h",
   "i", "j", "k", "l", "m", "n", "o", "p", "q", "r", "s", "t", "u", "v", "w", "x", "y",
   "z"}

IsDigit(c) == \E i \in DOMAIN Digits : Digits[i] = c
IsWhitespace(c) == c = " "

ResultOk(v) == [ok |-> TRUE, val |-> v, err |-> ""]
ResultErr(msg) == [ok |-> FALSE, val |-> <<>>, err |-> msg]

\* `let x = v;` followed by F(x): v is computed once and F applied to its value
Bind(v, F(_)) == CHOOSE y \in {F(x) : x \in {v}} : TRUE

\* str::split(delims): the pieces between the delimiters, empty ones included
Split(str, delims) ==
  LET Pieces(s) ==
        LET cuts == {k \in DOMAIN s : s[k] \in delims}
            NthCut(n) == CHOOSE k \in cuts : Cardinality({c \in cuts : c < k}) = n - 1
        IN [n \in 1..Cardinality(cuts) + 1 |->
              SubSeq(s,
                     IF n = 1 THEN 1 ELSE NthCut(n - 1) + 1,
                     IF n = Cardinality(cuts) + 1 THEN Len(s) ELSE NthCut(n) - 1)]
  IN Bind(str, Pieces)

\* str::trim
Trim(str) ==
  LET Trimmed(s) ==
        IF \A i \in DOMAIN s : IsWhitespace(s[i]) THEN <<>>
        ELSE LET first == CHOOSE k \in DOMAIN s :
                            ~IsWhitespace(s[k]) /\ \A j \in 1..k - 1 : IsWhitespace(s[j])
                 last == CHOOSE k \in DOMAIN s :
                           ~IsWhitespace(s[k]) /\ \A j \in k + 1..Len(s) : IsWhitespace(s[j])
             IN SubSeq(s, first, last)
  IN Bind(str, Trimmed)

\* str::find(pat): the 0-based index of the first occurrence, as an Option
Find(s, pat) ==
  LET at == {k \in 0..Len(s) - Len(pat) : SubSeq(s, k + 1, k + Len(pat)) = pat}
  IN IF at = {} THEN None ELSE Some(CHOOSE k \in at : \A j \in at : k <= j)

\* the value of the first n digits of s
RECURSIVE DecimalValue(_, _)
DecimalValue(s, n) ==
  IF n = 0 THEN 0
  ELSE 10 * DecimalValue(s, n - 1) + (CHOOSE i \in DOMAIN Digits : Digits[i] = s[n]) - 1

\* str::parse::<usize> on the strings of the model (digits, no sign, no
\* value near usize::MAX)
ParseUsize(str) ==
  LET Parsed_(s) ==
        LET digits == IF s # <<>> /\ s[1] = "+" THEN Tail(s) ELSE s
        IN IF digits # <<>> /\ \A i \in DOMAIN digits : IsDigit(digits[i])
           THEN ResultOk(DecimalValue(digits, Len(digits)))
           ELSE ResultErr("Unable to parse number")
  IN Bind(str, Parsed_)

\* how write!(f, "{}", n) shows a usize
RECURSIVE FormatUsize(_)
FormatUsize(n) ==
  IF n < 10 THEN <<Digits[n + 1]>>
  ELSE FormatUsize(n \div 10) \o <<Digits[(n % 10) + 1]>>

(***************************************************************************)
(* extract_number, extract_range, extract_book_name.                       *)
(***************************************************************************)
extract_number(s) == ParseUsize(Trim(s))

\* extract_range without the check lower >= upper
extract_range_unordered(s) ==
  LET One(num) == IF num.ok THEN ResultOk(<<num.val, num.val>>) ELSE num
      Two(pair) ==
        IF ~pair[1].ok THEN pair[1]
        ELSE IF ~pair[2].ok THEN pair[2]
        ELSE ResultOk(<<pair[1].val, pair[2].val>>)
      Ranged(split) ==
        IF Len(split) = 1 THEN Bind(extract_number(split[1]), One)
        ELSE IF Len(split) = 2
        THEN Bind(<<extract_number(split[1]), extract_number(split[2])>>, Two)
        ELSE ResultErr("Too many dashes")
  IN Bind(Split(s, {RANGE_DELIM_CANONICAL, RANGE_DELIM_NON_CANONICAL1,
                    RANGE_DELIM_NON_CANONICAL2}),
          Ranged)

extract_range(s) ==
  LET One(num) == IF num.ok THEN ResultOk(<<num.val, num.val>>) ELSE num
      Two(pair) ==
        LET lower == pair[1]
            upper == pair[2]
        IN IF ~lower.ok THEN lower
           ELSE IF ~upper.ok THEN upper
           ELSE IF lower.val >= upper.val THEN ResultErr("Range is invalid")
           ELSE ResultOk(<<lower.val, upper.val>>)
      Ranged(split) ==
        IF Len(split) = 1 THEN Bind(extract_number(split[1]), One)
        ELSE IF Len(split) = 2
        THEN Bind(<<extract_number(split[1]), extract_number(split[2])>>, Two)
        ELSE ResultErr("Too many dashes")
  IN Bind(Split(s, {RANGE_DELIM_CANONICAL, RANGE_DELIM_NON_CANONICAL1,
                    RANGE_DELIM_NON_CANONICAL2}),
          Ranged)

\* the capture "name" of ^(?P<name>(\d\s)?[A-Za-z ]+\.?)\s+ on t, as an
\* Option.  The optional digit and whitespace are taken when they are there
\* (without them the letters cannot start at a digit); the run of letters
\* and spaces is matched as long as it can be while a whitespace still
\* follows the name: the whole run and a period when a whitespace follows
\* the period, otherwise the run up to its last space that is not its first
\* character.
PossibleBookName(str) ==
  LET Captured(t) ==
        LET p == IF Len(t) >= 2 /\ IsDigit(t[1]) /\ IsWhitespace(t[2]) THEN 2 ELSE 0
            InRun(c) == c \in Letters \/ c = " "
            WithRun(m) ==
              LET shorter == {k \in 1..m - 1 : IsWhitespace(t[p + k + 1])}
              IN IF m = 0 THEN None
                 ELSE IF /\ p + m + 2 <= Len(t)
                         /\ t[p + m + 1] = "."
                         /\ IsWhitespace(t[p + m + 2])
                 THEN Some(SubSeq(t, 1, p + m + 1))
                 ELSE IF shorter # {}
                 THEN Some(SubSeq(t, 1,
                                  p + (CHOOSE k \in shorter : \A j \in shorter : j <= k)))
                 ELSE None
        IN Bind(IF p + 1 > Len(t) \/ ~InRun(t[p + 1]) THEN 0
                ELSE CHOOSE k \in 1..Len(t) - p :
                       /\ \A j \in 1..k : InRun(t[p + j])
                       /\ (p + k = Len(t) \/ ~InRun(t[p + k + 1])),
                WithRun)
  IN Bind(str, Captured)

book_data_from_candidate_title(candidate) ==
  LET rows == {i \in DOMAIN BOOK_DATA :
                 BOOK_DATA[i].long_name = candidate \/ BOOK_DATA[i].short_name = candidate}
  IN IF rows = {} THEN None
     ELSE Some(BOOK_DATA[CHOOSE i \in rows : \A j \in rows : i <= j])

\* Ok([end, book_index, work]) with end the index in s after the name
extract_book_name(str) ==
  LET In(s) ==
        LET Named(trimmed) ==
              LET Looked(book_data) ==
                    IF IsNone(book_data) THEN ResultErr("Book name not found as expected")
                    ELSE ResultOk([end |-> Unwrap(Find(s, trimmed)) + Len(trimmed),
                                   book_index |-> Unwrap(book_data).book_index,
                                   work |-> Unwrap(book_data).work])
              IN Bind(book_data_from_candidate_title(trimmed), Looked)
            Matched(caps) ==
              IF IsNone(caps) THEN ResultErr("Book name not found as expected")
              ELSE Bind(Trim(Unwrap(caps)), Named)
        IN Bind(PossibleBookName(Trim(s)), Matched)
  IN Bind(str, In)

(***************************************************************************)
(* impl str::FromStr for RangeCollection.                                  *)
(***************************************************************************)
\* for chunk in chunks { let (start, end) = extract_range(chunk)?; push }
\* from the k-th chunk on; chapter is None for the chunks of a chapter
\* citation
RECURSIVE PushRanges(_, _, _, _, _, _)
PushRanges(chunks, k, chapter, book_index, work, refsSoFar) ==
  LET Pushed(references) ==
        LET Ranged(range) ==
              IF ~range.ok THEN range
              ELSE LET range_type == IF IsNone(chapter)
                                     THEN StartEndChapter(range.val[1], range.val[2])
                                     ELSE StartEndVerse(Unwrap(chapter), range.val[1],
                                                        range.val[2])
                   IN PushRanges(chunks, k + 1, chapter, book_index, work,
                                 Append(references,
                                        VerseRangeReference(range_type, book_index, work)))
        IN IF k > Len(chunks) THEN ResultOk(references)
           ELSE Bind(extract_range(chunks[k]), Ranged)
  IN Bind(refsSoFar, Pushed)

\* the body of the loop over the citations
ParseCitation(citation, references) ==
  LET Chapters(chapter_chunk_split) ==
        LET first_chunk == chapter_chunk_split[1]
            Named(name) ==
              IF ~name.ok THEN name
              ELSE LET Chunks(chapter_chunks) ==
                         PushRanges(chapter_chunks, 1, None, name.val.book_index,
                                    name.val.work, references)
                   IN Bind(<<SubSeq(first_chunk, name.val.end + 1, Len(first_chunk))>>
                             \o Tail(chapter_chunk_split),
                           Chunks)
        IN Bind(extract_book_name(first_chunk), Named)
      Verses(chapter_verse_split) ==
        LET book_chapter_chunk == chapter_verse_split[1]
            Named(name) ==
              IF ~name.ok THEN name
              ELSE LET Numbered(chapter) ==
                         IF ~chapter.ok THEN chapter
                         ELSE LET Chunks(verse_chunk_split) ==
                                    PushRanges(verse_chunk_split, 1, Some(chapter.val),
                                               name.val.book_index, name.val.work,
                                               references)
                              IN Bind(Split(chapter_verse_split[2], {VERSE_CHUNK_DELIM}),
                                      Chunks)
                   IN Bind(extract_number(SubSeq(book_chapter_chunk, name.val.end + 1,
                                                 Len(book_chapter_chunk))),
                           Numbered)
            OrPrevious(found) ==
              IF found.ok \/ references = <<>> THEN found
              ELSE ResultOk([end |-> 0,
                             book_index |-> references[Len(references)].book_index,
                             work |-> references[Len(references)].work])
        IN Bind(Bind(extract_book_name(book_chapter_chunk), OrPrevious), Named)
      Cited(chapter_verse_split) ==
        IF Len(chapter_verse_split) = 1
        THEN Bind(Split(citation, {VERSE_CHUNK_DELIM}), Chapters)
        ELSE IF Len(chapter_verse_split) = 2 THEN Verses(chapter_verse_split)
        ELSE ResultErr("More than 1 ':' in a single citation")
  IN Bind(Split(citation, {CHAPTER_VERSE_DELIM}), Cited)

\* the loop over the citations, were a citation that fails left out
RECURSIVE ParseCitationsLenient(_, _, _)
ParseCitationsLenient(citations, k, refsSoFar) ==
  LET Parsed_(references) ==
        LET Next_(r) ==
              ParseCitationsLenient(citations, k + 1, IF r.ok THEN r.val ELSE references)
        IN IF k > Len(citations)
           THEN IF references = <<>>
                THEN ResultErr("Unable to parse any references from string")
                ELSE ResultOk(references)
           ELSE Bind(ParseCitation(citations[k], references), Next_)
  IN Bind(refsSoFar, Parsed_)

\* for citation in citations { .. }, from the k-th citation on, and the
\* check that follows the loop
RECURSIVE ParseCitations(_, _, _)
ParseCitations(citations, k, refsSoFar) ==
  LET Parsed_(references) ==
        LET Next_(r) == IF ~r.ok THEN r ELSE ParseCitations(citations, k + 1, r.val)
        IN IF k > Len(citations)
           THEN IF references = <<>>
                THEN ResultErr("Unable to parse any references from string")
                ELSE ResultOk(references)
           ELSE Bind(ParseCitation(citations[k], references), Next_)
  IN Bind(refsSoFar, Parsed_)

\* from_str
FromStr(s) ==
  LET Citations(citations) == ParseCitations(citations, 1, <<>>)
  IN Bind(Split(s, {CITATION_DELIM}), Citations)

(***************************************************************************)
(* impl fmt::Display for RangeCollection.                                  *)
(***************************************************************************)
\* "Use values guaranteed to not be the first."
PreviousSentinel == 1000

\* every range written with a dash, a single number too
WriteRangeAlwaysDashed(start, end) ==
  FormatUsize(start) \o <<RANGE_DELIM_CANONICAL>> \o FormatUsize(end)

\* if start == end { "{}" } else { "{}{}{}" }
WriteRange(start, end) ==
  IF start = end THEN FormatUsize(start)
  ELSE FormatUsize(start) \o <<RANGE_DELIM_CANONICAL>> \o FormatUsize(end)

\* the body of the loop over the references; i counts from 0
DisplayStep(st, reference, i) ==
  LET new_book == st.previous_book # reference.book_index
      new_work == IsNone(st.previous_work) \/ Unwrap(st.previous_work) # reference.work
      new_book_title == new_book \/ new_work
      book_data == BOOK_DATA[CHOOSE k \in DOMAIN BOOK_DATA :
                               /\ BOOK_DATA[k].work = reference.work
                               /\ BOOK_DATA[k].book_index = reference.book_index]
      rt == reference.range_type
      Ranged(titled) ==
        IF rt.tag = "StartEndChapter"
        THEN [titled EXCEPT !.out = titled.out
                                      \o (IF ~new_book_title THEN <<VERSE_CHUNK_DELIM, " ">>
                                          ELSE <<>>)
                                      \o WriteRange(rt.start, rt.end)]
        ELSE IF ~new_book_title /\ rt.chapter = titled.previous_chapter
        THEN [titled EXCEPT !.out = titled.out \o <<VERSE_CHUNK_DELIM, " ">>
                                      \o WriteRange(rt.start, rt.end)]
        ELSE [titled EXCEPT !.out = titled.out
                                      \o (IF ~new_book_title /\ i # 0
                                          THEN <<CITATION_DELIM, " ">> ELSE <<>>)
                                      \o FormatUsize(rt.chapter) \o <<CHAPTER_VERSE_DELIM>>
                                      \o WriteRange(rt.start, rt.end),
                            !.previous_chapter = rt.chapter]
  IN Bind(IF new_book_title
          THEN [st EXCEPT !.out = st.out
                                    \o (IF i # 0 THEN <<CITATION_DELIM, " ">> ELSE <<>>)
                                    \o book_data.short_name \o <<" ">>,
                          !.previous_book = reference.book_index,
                          !.previous_work = Some(reference.work)]
          ELSE st,
          Ranged)

RECURSIVE DisplayLoop(_, _, _)
DisplayLoop(state, rs, i) ==
  LET Looped(st) ==
        IF i >= Len(rs) THEN st ELSE DisplayLoop(DisplayStep(st, rs[i + 1], i), rs, i + 1)
  IN Bind(state, Looped)

\* to_string
Display(rs) ==
  DisplayLoop([out |-> <<>>, previous_book |-> PreviousSentinel,
               previous_chapter |-> PreviousSentinel, previous_work |-> None],
              rs, 0).out

(***************************************************************************)
(* The state.                                                              *)
(*   refs      RangeCollection.refs                                        *)
(*   before    refs as they were when the last canonicalize was called     *)
(*   log       the branch taken by each loop iteration of that call        *)
(*   calls     how many times canonicalize has been called                 *)
(*   sortImpl  the insertion sort the toolchain's slice::sort uses         *)
(*   consumed        the blocks of the corpus text handed to               *)
(*                   update_book_with_chunk so far                         *)
(*   previous_chunk  Parser::parse's previous_chunk                        *)
(*   books           bom.books                                             *)
(*   parsed          "running", or the value Parser::parse returned        *)
(*   asked           the VerseReference handed to BOM::verse_matching      *)
(*   answer          the operation called on the corpus and what it gave   *)
(*   shown           the citation string given, then each string            *)
(*                   to_string produced from what was parsed                *)
(*   stage           "text": the last string of shown awaits from_str;      *)
(*                   "refs": from_str returned Ok(refs); "rejected": Err    *)

(***************************************************************************)
(* iterators.rs: BOM::verses and impl Iterator for VerseIter.  The cursor  *)
(* holds 0-based indices; an item carries the book's title and the verse's *)
(* text (chapter.number and verse.number are copied from the data, which   *)
(* the corpus of this model does not hold).                                *)
(***************************************************************************)
VerseIter(b, c, v) == [book_index |-> b, chapter_index |-> c, verse_index |-> v]

\* pub fn verses(&self) -> VerseIter
bom_verses == VerseIter(0, 0, 0)

VerseItem(book, verse) == [book |-> book.title, text |-> verse.text]

\* self.verse_index += 1 and the two overflow checks
Advance(it, book, chapter) ==
  IF it.verse_index + 1 >= Len(chapter.verses)
  THEN IF it.chapter_index + 1 >= Len(book.chapters)
       THEN VerseIter(it.book_index + 1, 0, 0)
       ELSE VerseIter(it.book_index, it.chapter_index + 1, 0)
  ELSE VerseIter(it.book_index, it.chapter_index, it.verse_index + 1)

\* next(), were the cursor set back to the start when the end is found
VerseIterNextRestarting(it, bs) ==
  LET book == Get(bs, it.book_index)
      chapter == GetChapter(book, it.chapter_index)
      verse == GetVerse(chapter, it.verse_index)
  IN IF IsNone(verse) THEN [item |-> None, iter |-> bom_verses]
     ELSE [item |-> Some(VerseItem(Unwrap(book), Unwrap(verse))),
           iter |-> Advance(it, Unwrap(book), Unwrap(chapter))]

\* fn next(&mut self): the value returned and the cursor it leaves
VerseIterNext(it, bs) ==
  LET book == Get(bs, it.book_index)
      chapter == GetChapter(book, it.chapter_index)
      verse == GetVerse(chapter, it.verse_index)
  IN IF IsNone(verse) THEN [item |-> None, iter |-> it]
     ELSE [item |-> Some(VerseItem(Unwrap(book), Unwrap(verse))),
           iter |-> Advance(it, Unwrap(book), Unwrap(chapter))]

(***************************************************************************)
VARIABLES refs, before, log, calls, sortImpl,
          consumed, previous_chunk, books, parsed,
          asked, answer, iter, returned,
          shown, stage,
          cache, loaded

canonVars == <<refs, before, log, calls, sortImpl>>
parserVars == <<consumed, previous_chunk, books, parsed>>
lookupVars == <<asked, answer, iter, returned>>
citeVars == <<shown, stage>>
cliVars == <<cache, loaded>>
vars == <<canonVars, parserVars, lookupVars, citeVars, cliVars>>

(***************************************************************************)
(* The clauses the citation parser can build from the numbers              *)
(* 1..MaxCanonChapter and 1..MaxVerse: a bare number n gives (n, n), a     *)
(* dashed pair gives start < end.                                          *)
(***************************************************************************)
RangeTypes ==
  {StartEndChapter(s, e) : s \in 1..MaxCanonChapter, e \in 1..MaxCanonChapter} \cup
  {StartEndVerse(c, s, e) : c \in 1..MaxCanonChapter, s \in 1..MaxVerse, e \in 1..MaxVerse}

Clauses ==
  {VerseRangeReference(rt, BOOK_DATA[i].book_index, BOOK_DATA[i].work) :
     rt \in {x \in RangeTypes : x.start <= x.end}, i \in DOMAIN BOOK_DATA}

Collections == UNION {[1..n -> Clauses] : n \in 1..MaxClauses}

\* ParseError::CorpusInvalid(String): the message, the block it quotes and, for
\* a verse-number mismatch, the two numbers it names
CorpusInvalid(why, block, expected, got) ==
  [err |-> "CorpusInvalid", why |-> why, block |-> block, expected |-> expected, got |-> got]

NoError == [err |-> "", why |-> "", block |-> 0, expected |-> 0, got |-> 0]

\* what Parser::parse has returned: Ok(bom) with bom.books = books, or Err(error)
Parsed(state, error) == [state |-> state, error |-> error]

\* the parser's variables in the specifications that do not parse a corpus
ParserIdle ==
  /\ consumed = <<>>
  /\ previous_chunk = [kind |-> "Verse", verse_num |-> 0]
  /\ books = <<>>
  /\ parsed = Parsed("idle", NoError)

NoReference == [work |-> "BookOfMormon", book_index |-> 0, chapter_index |-> 0, verse_index |-> 0]

Answer(op, valid, data, out, found, panic) ==
  [op |-> op, valid |-> valid, data |-> data, out |-> out, found |-> found, panic |-> panic]

\* the lookup variables before any lookup
LookupIdle ==
  /\ asked = NoReference
  /\ answer = Answer("none", FALSE, <<>>, <<>>, None, FALSE)
  /\ iter = bom_verses
  /\ returned = <<>>

\* the snapshot file of the command line program: absent, unreadable, holding
\* bytes that do not deserialize, or holding a serialized corpus
Snapshot(state, bom) == [state |-> state, bom |-> bom]

\* what get_bom returned: Ok(bom) or Err(error); from_cache is its local flag
Loaded(result, bom, error, from_cache) ==
  [result |-> result, bom |-> bom, error |-> error, from_cache |-> from_cache]

\* the command line program's variables in the specifications that do not run it
CliIdle ==
  /\ cache = Snapshot("absent", <<>>)
  /\ loaded = Loaded("none", <<>>, "", FALSE)

\* the citation strings in the specifications that parse and format none
CiteIdle ==
  /\ shown = <<>>
  /\ stage = "idle"

\* the collection's variables in the specifications that canonicalize nothing
CanonIdle ==
  /\ refs = <<>>
  /\ before = <<>>
  /\ log = <<>>
  /\ calls = 0
  /\ sortImpl = "insert_head"

InitCanon ==
  /\ CliIdle
  /\ refs \in Collections
  /\ before = <<>>
  /\ log = <<>>
  /\ calls = 0
  /\ sortImpl \in SortImpls
  /\ ParserIdle
  /\ LookupIdle
  /\ CiteIdle

\* pub fn canonicalize(&mut self), on a non-empty collection
Canonicalize ==
  /\ calls < MaxCalls
  /\ refs # <<>>
  /\ LET st == CanonRun(Sort(refs, sortImpl))
     IN /\ refs' = st.new_refs
        /\ log' = st.log
  /\ before' = refs
  /\ calls' = calls + 1
  /\ UNCHANGED <<sortImpl, parserVars, lookupVars, citeVars, cliVars>>

NextCanon == Canonicalize

SpecCanon == InitCanon /\ [][NextCanon]_vars

(***************************************************************************)
(* Coverage: the (work, book, chapter, verse) addresses a clause denotes.  *)
(* A chapter range covers every verse of its chapters.                     *)
(***************************************************************************)
Covers(r, w, b, c, v) ==
  /\ r.work = w
  /\ r.book_index = b
  /\ IF r.range_type.tag = "StartEndChapter"
     THEN r.range_type.start <= c /\ c <= r.range_type.end
     ELSE r.range_type.chapter = c /\ r.range_type.start <= v /\ v <= r.range_type.end

Addresses ==
  {<<BOOK_DATA[i].work, BOOK_DATA[i].book_index, c, v>> :
     i \in DOMAIN BOOK_DATA, c \in 1..MaxCanonChapter, v \in 1..MaxVerse}

Covered(rs) ==
  {a \in Addresses : \E i \in DOMAIN rs : Covers(rs[i], a[1], a[2], a[3], a[4])}

(***************************************************************************)
(* C1: canonicalize loses no coverage: every address covered by a clause   *)
(* before the call is covered by a clause after it; a verse-range clause   *)
(* is dropped, or replaced by a chapter range, only when its chapter lies  *)
(* inside the chapter range that is kept.                                  *)
(***************************************************************************)
VerseDroppedOnlyInsideKept ==
  \A i \in DOMAIN log :
    /\ log[i].branch = "drop" =>
         /\ log[i].was.range_type.start <= log[i].r.range_type.chapter
         /\ log[i].r.range_type.chapter <= log[i].was.range_type.end
    /\ log[i].branch = "keep_new" =>
         /\ log[i].now.range_type.start <= log[i].was.range_type.chapter
         /\ log[i].was.range_type.chapter <= log[i].now.range_type.end

C1_NoCoverageLost ==
  calls > 0 => Covered(before) \subseteq Covered(refs) /\ VerseDroppedOnlyInsideKept

(***************************************************************************)
(* C2: canonicalization is idempotent: canonicalize applied to the result  *)
(* of canonicalize leaves the clauses unchanged.                           *)
(***************************************************************************)
C2_CanonicalizeIdempotent == calls = 2 => refs = before

(***************************************************************************)
(* C4: when canonicalize merges two verse-range clauses, they are in the   *)
(* same work, book and chapter, and the merged clause covers exactly the   *)
(* union of their verses; verse ranges of two different chapters are       *)
(* never merged into one clause.                                           *)
(***************************************************************************)
C4_VerseMergeSameChapter ==
  \A i \in DOMAIN log :
    log[i].branch = "verse_union" =>
      /\ log[i].was.work = log[i].r.work
      /\ log[i].was.book_index = log[i].r.book_index
      /\ log[i].was.range_type.chapter = log[i].r.range_type.chapter
      /\ Covered(<<log[i].now>>) = Covered(<<log[i].was>>) \cup Covered(<<log[i].r>>)

(***************************************************************************)
(* parsers.rs: the Gutenberg corpus parser.                                *)
(*                                                                         *)
(* A block of the text is modelled by what the patterns of ChunkType::new  *)
(* see of it: an upper-case single line, a chapter heading                 *)
(* ("<name> <n>\nChapter <n>"), a verse block with its captured number     *)
(* (one or two digits, so the number always parses), or any other text.    *)
(***************************************************************************)
MaxChunks == 6

Blocks ==
  {[shape |-> sh, num |-> 0] : sh \in {"upper_line", "chapter_heading", "other"}} \cup
  {[shape |-> "verse_lines", num |-> n] : n \in 0..MaxVerse + 1}

Chunk(kind, n) == [kind |-> kind, verse_num |-> n]

\* ChunkType::new
ChunkTypeNew(b) ==
  IF b.shape = "upper_line" THEN Chunk("BookTitle", 0)
  ELSE IF b.shape = "chapter_heading" THEN Chunk("ChapterStart", 0)
  ELSE IF b.shape = "verse_lines" THEN Chunk("Verse", b.num)
  ELSE Chunk("BookDescription", 0)

Book(title) == [title |-> title, short_title |-> None, description |-> None, chapters |-> <<>>]
Chapter == [verses |-> <<>>]
Verse(text) == [text |-> text]

\* bom.books.last_mut() applied to f: no book, no change
WithLastBook(bs, f(_)) ==
  IF bs = <<>> THEN bs ELSE [bs EXCEPT ![Len(bs)] = f(bs[Len(bs)])]

PushChapter(book) == [book EXCEPT !.chapters = Append(book.chapters, Chapter)]

PushVerse(book, text) ==
  [book EXCEPT !.chapters[Len(book.chapters)].verses =
                  Append(book.chapters[Len(book.chapters)].verses, Verse(text))]

\* a plausible slip: the count of verses taken as the expected number
expected_verse_number_off_by_one(chapter) == Len(chapter.verses)

\* let expected_verse_number = chapter.verses.len() + 1
expected_verse_number(chapter) == Len(chapter.verses) + 1

\* a chapter start accepted after any chunk
ChapterStartPreviousAny == {"BookTitle", "BookDescription", "ChapterStart", "Verse"}

\* ChunkType::BookTitle | ChunkType::BookDescription | ChunkType::Verse { .. }
ChapterStartPrevious == {"BookTitle", "BookDescription", "Verse"}

\* update_book_with_chunk: s is the block (id is its position in the text);
\* gives the books as the call leaves them and the value it returns
update_book_with_chunk(s, id, prev, bs) ==
  LET chunk == ChunkTypeNew(s)
      Ok(newbs) == [books |-> newbs, ok |-> TRUE, chunk |-> chunk, error |-> NoError]
      Err(newbs, why, e, g) ==
        [books |-> newbs, ok |-> FALSE, chunk |-> chunk,
         error |-> CorpusInvalid(why, id, e, g)]
  IN CASE chunk.kind = "BookTitle" ->
            IF prev.kind = "Verse" THEN Ok(Append(bs, Book(id)))
            ELSE Err(bs, "Book title in incorrect location", 0, 0)
       [] chunk.kind = "BookDescription" ->
            IF prev.kind = "BookTitle"
            THEN LET SetDescription(b) == [b EXCEPT !.description = Some(id)]
                 IN Ok(WithLastBook(bs, SetDescription))
            ELSE Err(bs, "Book description in incorrect location", 0, 0)
       [] chunk.kind = "ChapterStart" ->
            IF prev.kind \in ChapterStartPrevious
            THEN Ok(WithLastBook(bs, PushChapter))
            ELSE Err(bs, "Chapter start in incorrect location", 0, 0)
       [] chunk.kind = "Verse" ->
            IF prev.kind \in {"BookTitle", "BookDescription", "ChapterStart", "Verse"}
            THEN LET opened == IF prev.kind \in {"BookTitle", "BookDescription"}
                               THEN WithLastBook(bs, PushChapter) ELSE bs
                     SetShortTitle(b) == [b EXCEPT !.short_title = Some(id)]
                     titled == WithLastBook(opened, SetShortTitle)
                 IN IF titled = <<>> \/ titled[Len(titled)].chapters = <<>>
                    THEN Ok(titled)
                    ELSE LET book == titled[Len(titled)]
                             chapter == book.chapters[Len(book.chapters)]
                             expected == expected_verse_number(chapter)
                         IN IF expected # chunk.verse_num
                            THEN Err(titled, "Parser thought this verse was",
                                     expected, chunk.verse_num)
                            ELSE LET Add(b) == PushVerse(b, id)
                                 IN Ok(WithLastBook(titled, Add))
            ELSE Err(bs, "Verse in incorrect location", 0, 0)
       [] OTHER -> Err(bs, "Unrecognized line", 0, 0)

InitParser ==
  /\ CliIdle
  /\ consumed = <<>>
  /\ previous_chunk = Chunk("Verse", 0)
  /\ books = <<>>
  /\ parsed = Parsed("running", NoError)
  /\ CanonIdle
  /\ LookupIdle
  /\ CiteIdle

\* Parser::parse, one iteration of "for s in chunks"
ParseChunk ==
  /\ parsed.state = "running"
  /\ Len(consumed) < MaxChunks
  /\ \E s \in Blocks :
       LET r == update_book_with_chunk(s, Len(consumed) + 1, previous_chunk, books)
       IN /\ consumed' = Append(consumed, s)
          /\ books' = r.books
          /\ IF r.ok
             THEN previous_chunk' = r.chunk /\ parsed' = parsed
             ELSE previous_chunk' = previous_chunk /\ parsed' = Parsed("Err", r.error)
  /\ UNCHANGED <<canonVars, lookupVars, citeVars, cliVars>>

\* the end of Parser::parse without the check of bom.books
ParseEndUnchecked ==
  /\ parsed.state = "running"
  /\ parsed' = Parsed("Ok", NoError)
  /\ UNCHANGED <<consumed, previous_chunk, books, canonVars, lookupVars, citeVars, cliVars>>

\* Parser::parse, after the last block of the text
ParseEnd ==
  /\ parsed.state = "running"
  /\ parsed' = IF books = <<>>
               THEN Parsed("Err", CorpusInvalid("No books found", 0, 0, 0))
               ELSE Parsed("Ok", NoError)
  /\ UNCHANGED <<consumed, previous_chunk, books, canonVars, lookupVars, citeVars, cliVars>>

NextParser == ParseChunk \/ ParseEnd

SpecParser == InitParser /\ [][NextParser]_vars

ParseOk == parsed.state = "Ok"
ParseFailed == parsed.state = "Err"

(***************************************************************************)
(* C5: verse numbering integrity.  When a verse block arrives and there    *)
(* is a current chapter (the last chapter of the last book, opened         *)
(* implicitly after a title or description), the verse is appended exactly *)
(* when its captured number equals the chapter's verse count + 1;          *)
(* otherwise the parse fails with a corpus-invalid error naming both       *)
(* numbers.  Hence the verse at position k of every chapter was built      *)
(* from a block numbered k.                                                *)
(***************************************************************************)
VersesNumberedByPosition(bs) ==
  \A b \in DOMAIN bs : \A c \in DOMAIN bs[b].chapters :
    \A k \in DOMAIN bs[b].chapters[c].verses :
      LET src == consumed'[bs[b].chapters[c].verses[k].text]
      IN src.shape = "verse_lines" /\ src.num = k

\* the verse count of the chapter a verse block arriving now would go to,
\* None when there is no such chapter
CurrentChapterCount ==
  IF books = <<>> THEN None
  ELSE IF previous_chunk.kind \in {"BookTitle", "BookDescription"} THEN Some(0)
  ELSE IF books[Len(books)].chapters = <<>> THEN None
  ELSE LET book == books[Len(books)]
       IN Some(Len(book.chapters[Len(book.chapters)].verses))

VerseStepChecked ==
  LET s == consumed'[Len(consumed')]
      n == Unwrap(CurrentChapterCount)
      book == books'[Len(books')]
      verses == book.chapters[Len(book.chapters)].verses
  IN (Len(consumed') = Len(consumed) + 1 /\ s.shape = "verse_lines"
        /\ IsSome(CurrentChapterCount)) =>
       IF s.num = n + 1
       THEN /\ parsed'.state = "running"
            /\ Len(verses) = n + 1
            /\ verses[n + 1] = Verse(Len(consumed'))
       ELSE /\ parsed' = Parsed("Err", CorpusInvalid("Parser thought this verse was",
                                                     Len(consumed'), n + 1, s.num))
            /\ Len(verses) = n

C5_VerseNumbering == [][VerseStepChecked /\ VersesNumberedByPosition(books')]_vars

\* a parse that succeeded with a chapter of two verses after one of one verse
C5_Witness ==
  /\ ParseOk
  /\ \E b \in DOMAIN books : \E c \in DOMAIN books[b].chapters :
       Len(books[b].chapters[c].verses) = 2

(***************************************************************************)
(* C6: every Book of a corpus returned by a successful parse has at least  *)
(* one Chapter.                                                            *)
(***************************************************************************)
C6_EveryBookHasChapter ==
  ParseOk => \A b \in DOMAIN books : books[b].chapters # <<>>

(***************************************************************************)
(* Lookups against a corpus.  The corpora are all trees of at most         *)
(* MaxBooks books, MaxChapter chapters a book and MaxVerse verses a        *)
(* chapter; the text of a verse names its position, a book that has a      *)
(* verse has a short title.  The clauses are those of the Book of Mormon   *)
(* rows of BOOK_DATA with numbers from 0 to one past the bounds.           *)
(***************************************************************************)
MaxBooks == 1
MaxLookupClauses == 2

TextAt(b, c, v) == 100 * b + 10 * c + v

ChapterShapes == UNION {[1..n -> 0..MaxVerse] : n \in 0..MaxChapter}
CorpusShapes == UNION {[1..n -> ChapterShapes] : n \in 0..MaxBooks}

MakeBook(b, shape) ==
  [title |-> b,
   short_title |-> IF \E c \in DOMAIN shape : shape[c] > 0 THEN Some(50 + b) ELSE None,
   description |-> None,
   chapters |-> [c \in DOMAIN shape |->
                   [verses |-> [v \in 1..shape[c] |-> Verse(TextAt(b, c, v))]]]]

MakeCorpus(shape) == [i \in DOMAIN shape |-> MakeBook(i - 1, shape[i])]

LookupRangeTypes ==
  {StartEndChapter(s, e) : s \in 0..MaxChapter + 1, e \in 0..MaxChapter + 1} \cup
  {StartEndVerse(c, s, e) :
     c \in 0..MaxChapter + 1, s \in 0..MaxVerse + 1, e \in 0..MaxVerse + 1}

LookupClauses ==
  {VerseRangeReference(rt, BOOK_DATA[i].book_index, BOOK_DATA[i].work) :
     rt \in {x \in LookupRangeTypes : x.start <= x.end},
     i \in {j \in DOMAIN BOOK_DATA : BOOK_DATA[j].work = "BookOfMormon"}}

\* the collections of n clauses
LookupCollections(n) == [1..n -> LookupClauses]

VerseReferences ==
  {VerseReference(w, b, c, v) :
     w \in Work, b \in 0..MaxBooks, c \in 0..MaxChapter + 1, v \in 0..MaxVerse + 1}

InitLookup ==
  /\ CliIdle
  /\ books \in {MakeCorpus(sh) : sh \in CorpusShapes}
  /\ consumed = <<>>
  /\ previous_chunk = Chunk("Verse", 0)
  /\ parsed = Parsed("Ok", NoError)
  /\ CanonIdle
  /\ LookupIdle
  /\ CiteIdle

\* RangeCollection::is_valid(&self, bom)
IsValid ==
  /\ answer.op = "none"
  /\ \E n \in 1..MaxLookupClauses : \E c \in LookupCollections(n) :
       /\ refs' = c
       /\ answer' = Answer("is_valid", CollectionIsValid(c, books), <<>>, <<>>, None, FALSE)
  /\ UNCHANGED <<before, log, calls, sortImpl, parserVars, asked, iter, returned, citeVars, cliVars>>

\* RangeCollection::verse_refs(&self, bom), collected
VerseRefs ==
  /\ answer.op = "none"
  /\ \E n \in 1..MaxLookupClauses : \E c \in LookupCollections(n) :
       LET r == verse_refs(c, books)
       IN /\ refs' = c
          /\ answer' = Answer("verse_refs", FALSE, r.data, <<>>, None, r.panic)
  /\ UNCHANGED <<before, log, calls, sortImpl, parserVars, asked, iter, returned, citeVars, cliVars>>

\* BOM::verses_matching(&self, range_collection), collected
VersesMatching ==
  /\ answer.op = "none"
  /\ \E n \in 1..MaxLookupClauses : \E c \in LookupCollections(n) :
       LET r == verses_matching(c, books)
       IN /\ refs' = c
          /\ answer' = Answer("verses_matching", FALSE, <<>>, r.out, None, r.panic)
  /\ UNCHANGED <<before, log, calls, sortImpl, parserVars, asked, iter, returned, citeVars, cliVars>>

\* BOM::verse_matching(&self, r)
VerseMatching ==
  /\ answer.op = "none"
  /\ \E r \in VerseReferences :
       LET m == verse_matching(r, books)
       IN /\ asked' = r
          /\ answer' = Answer("verse_matching", FALSE, <<>>, <<>>, m.found, m.panic)
  /\ UNCHANGED <<canonVars, parserVars, iter, returned, citeVars, cliVars>>

NextLookup == IsValid \/ VerseRefs \/ VersesMatching \/ VerseMatching

SpecLookup == InitLookup /\ [][NextLookup]_vars

(***************************************************************************)
(* What the lookups are expected to give, stated from the corpus alone.    *)
(***************************************************************************)
HasBook(b, bs) == b >= 0 /\ b < Len(bs)
HasChapter(b, c, bs) == HasBook(b, bs) /\ c >= 1 /\ c <= Len(bs[b + 1].chapters)
HasVerse(b, c, v, bs) ==
  HasChapter(b, c, bs) /\ v >= 1 /\ v <= Len(bs[b + 1].chapters[c].verses)

ClauseExists(rr, bs) ==
  LET rt == rr.range_type
  IN IF rt.tag = "StartEndChapter"
     THEN HasChapter(rr.book_index, rt.start, bs) /\ HasChapter(rr.book_index, rt.end, bs)
     ELSE /\ HasVerse(rr.book_index, rt.chapter, rt.start, bs)
          /\ HasVerse(rr.book_index, rt.chapter, rt.end, bs)

\* the references (c, from), ..., (c, to) of book b
VersesOfChapter(b, c, from, to) ==
  [k \in 1..(to - from + 1) |-> VerseReference("BookOfMormon", b, c, from + k - 1)]

RECURSIVE ChaptersFrom(_, _, _, _)
ChaptersFrom(b, c, end, bs) ==
  IF c > end THEN <<>>
  ELSE VersesOfChapter(b, c, 1, Len(bs[b + 1].chapters[c].verses))
         \o ChaptersFrom(b, c + 1, end, bs)

ExpectedRefs(rr, bs) ==
  LET rt == rr.range_type
  IN IF ~ClauseExists(rr, bs) THEN <<>>
     ELSE IF rt.tag = "StartEndChapter"
     THEN ChaptersFrom(rr.book_index, rt.start, rt.end, bs)
     ELSE VersesOfChapter(rr.book_index, rt.chapter, rt.start, rt.end)

RECURSIVE ExpectedCollectionRefs(_, _)
ExpectedCollectionRefs(rs, bs) ==
  IF rs = <<>> THEN <<>>
  ELSE ExpectedRefs(Head(rs), bs) \o ExpectedCollectionRefs(Tail(rs), bs)

StoredVerse(r, bs) ==
  LET book == bs[r.book_index + 1]
  IN VerseWithReference(IF IsSome(book.short_title) THEN Unwrap(book.short_title)
                        ELSE book.title,
                        r,
                        book.chapters[r.chapter_index].verses[r.verse_index].text)

RefExists(r, bs) == HasVerse(r.book_index, r.chapter_index, r.verse_index, bs)

\* a chapter clause as a citation writes it, its last chapter past the
\* last chapter of the book
PastLastChapter(rr, bs) ==
  /\ rr.range_type.tag = "StartEndChapter"
  /\ rr.range_type.start >= 1
  /\ HasBook(rr.book_index, bs)
  /\ rr.range_type.end > Len(bs[rr.book_index + 1].chapters)

\* C7: is_valid of a collection is true exactly when every clause has no
\* field 0 and both its endpoints exist in the corpus (the chapters start
\* and end of the named book, or the verses start and end of the named
\* chapter); one failing clause makes the collection invalid, and the call
\* reports an out-of-range clause as invalid without an index out of
\* bounds; the citation of a chapter past the last chapter of its book is
\* parsed without error into that clause, and reported invalid.
C7_IsValidExact ==
  answer.op = "is_valid" =>
    /\ answer.valid = (\A i \in DOMAIN refs : ClauseExists(refs[i], books))
    /\ ~answer.panic
    /\ \A i \in DOMAIN refs :
         PastLastChapter(refs[i], books) =>
           /\ FromStr(Display(<<refs[i]>>)) = ResultOk(<<refs[i]>>)
           /\ ~answer.valid

\* a collection of an existing clause and of one whose chapter is past the
\* book's last chapter is reported invalid
C7_Witness ==
  /\ answer.op = "is_valid"
  /\ Len(refs) = 2
  /\ ClauseExists(refs[1], books)
  /\ refs[2].range_type.tag = "StartEndChapter"
  /\ HasChapter(refs[2].book_index, refs[2].range_type.start, books)
  /\ refs[2].range_type.end = Len(books[refs[2].book_index + 1].chapters) + 1
  /\ ~answer.valid

\* C8: verse_refs of a valid chapter-range clause gives exactly, in order,
\* for each chapter c from start to end the references (c,1) .. (c, length
\* of c); of a valid verse-range clause exactly (chapter,start) ..
\* (chapter,end); and every reference given for a valid clause is valid.
C8_ExpansionExact ==
  (answer.op = "verse_refs" /\ \A i \in DOMAIN refs : ClauseExists(refs[i], books)) =>
    /\ ~answer.panic
    /\ answer.data = ExpectedCollectionRefs(refs, books)
    /\ \A k \in DOMAIN answer.data : RefExists(answer.data[k], books)

\* C9: verses_matching gives exactly the concatenation, in clause order, of
\* the stored verses of each valid clause, nothing for an invalid clause,
\* never fails, and every item it gives resolves in the corpus; a verse
\* two clauses share is given once per clause.
C9_VersesMatchingExact ==
  answer.op = "verses_matching" =>
    LET expected == ExpectedCollectionRefs(refs, books)
    IN /\ ~answer.panic
       /\ Len(answer.out) = Len(expected)
       /\ \A k \in DOMAIN answer.out :
            /\ RefExists(answer.out[k].reference, books)
            /\ answer.out[k] = StoredVerse(expected[k], books)

\* an invalid clause, then a chapter range over two chapters that have
\* verses, then nothing else: the verses of the two chapters come out
C9_Witness ==
  /\ answer.op = "verses_matching"
  /\ Len(refs) = 2
  /\ ~ClauseExists(refs[1], books)
  /\ ClauseExists(refs[2], books)
  /\ refs[2].range_type.tag = "StartEndChapter"
  /\ refs[2].range_type.start < refs[2].range_type.end
  /\ Len(answer.out) = 2 * MaxVerse

\* C10: verse_matching gives None exactly when the reference is invalid
\* (book past the last book, chapter or verse 0, chapter or verse past the
\* end), and otherwise the text stored at
\* books[book].chapters[chapter-1].verses[verse-1] with the same reference;
\* no lookup indexes out of bounds.
C10_VerseMatchingExact ==
  answer.op = "verse_matching" =>
    /\ ~answer.panic
    /\ IsNone(answer.found) <=> ~RefExists(asked, books)
    /\ IsSome(answer.found) => Unwrap(answer.found) = StoredVerse(asked, books)

\* the last verse of the last chapter of a book is found
C10_Witness ==
  /\ answer.op = "verse_matching"
  /\ IsSome(answer.found)
  /\ asked.chapter_index = MaxChapter
  /\ asked.verse_index = MaxVerse
  /\ Unwrap(answer.found).text = TextAt(asked.book_index, MaxChapter, MaxVerse)

(***************************************************************************)
(* Citation strings parsed and formatted.  A string is one to              *)
(* MaxCitationChunks chunks joined by "; " or ","; a chunk is an optional  *)
(* book name (short or long), an optional chapter with its colon, and a    *)
(* number or a range, so that well-formed and ill-formed citations, long   *)
(* names, leading zeros, extra spaces and non-canonical dashes all occur.  *)
(***************************************************************************)
MaxCitationChunks == 3
MaxPasses == 2

NameTexts ==
  {<<>>,
   BOOK_DATA[1].short_name \o <<" ">>,
   BOOK_DATA[2].long_name \o <<" ">>,
   BOOK_DATA[3].short_name \o <<" ">>}

ChapterTexts ==
  {<<>>, <<"1", ":">>, <<"0", "2", " ", ":">>, FormatUsize(PreviousSentinel) \o <<":">>}

RangeTexts == {<<"1">>, <<"1", "-", "2">>, <<"2", "ndash", "1">>}

SeparatorTexts == {<<";", " ">>, <<",">>}

ChunkTexts == {n \o c \o r : n \in NameTexts, c \in ChapterTexts, r \in RangeTexts}

\* the chunks joined by the separators
RECURSIVE Join(_, _)
Join(chunks, separators) ==
  IF Len(chunks) = 1 THEN chunks[1]
  ELSE chunks[1] \o separators[1] \o Join(Tail(chunks), Tail(separators))

InitCite ==
  /\ CliIdle
  /\ \E k \in 1..MaxCitationChunks :
       \E chunks \in [1..k -> ChunkTexts], separators \in [1..k - 1 -> SeparatorTexts] :
         shown = <<Join(chunks, separators)>>
  /\ stage = "text"
  /\ refs = <<>>
  /\ before = <<>>
  /\ log = <<>>
  /\ calls = 0
  /\ sortImpl = "insert_head"
  /\ ParserIdle
  /\ LookupIdle

\* shown[Len(shown)].parse::<RangeCollection>()
FromStrCall ==
  /\ stage = "text"
  /\ \E r \in {FromStr(shown[Len(shown)])} :
       IF r.ok THEN refs' = r.val /\ stage' = "refs"
       ELSE refs' = refs /\ stage' = "rejected"
  /\ UNCHANGED <<shown, before, log, calls, sortImpl, parserVars, lookupVars, cliVars>>

\* refs.to_string()
ToStringCall ==
  /\ stage = "refs"
  /\ Len(shown) <= MaxPasses
  /\ shown' = Append(shown, Display(refs))
  /\ stage' = "text"
  /\ UNCHANGED <<canonVars, parserVars, lookupVars, cliVars>>

NextCite == FromStrCall \/ ToStringCall

SpecCite == InitCite /\ [][NextCite]_vars

\* C3: for every string the citation parser accepts, the string formatted
\* from what was parsed is accepted too, and parsing and formatting that
\* string gives the same string again.
C3_FormatFixedPoint ==
  /\ (Len(shown) >= 2 => stage # "rejected")
  /\ (Len(shown) = 3 => shown[3] = shown[2])

\* a string that its formatting changed has been parsed and formatted twice
C3_Witness ==
  /\ Len(shown) = 3
  /\ shown[2] # shown[1]
  /\ Len(refs) = MaxCitationChunks

(***************************************************************************)
(* Clause texts of the citation strings, by whether they name a book.      *)
(***************************************************************************)
WellFormedRangeTexts == {r \in RangeTexts : extract_range(r).ok}

NamedClauseTexts ==
  {n \o c \o r : n \in NameTexts \ {<<>>}, c \in ChapterTexts, r \in WellFormedRangeTexts}

UnnamedClauseTexts == {c \o r : c \in ChapterTexts, r \in WellFormedRangeTexts}

\* s starts with p, and p is followed by the end of s or by a separator
StartsWithClause(s, p) ==
  /\ Len(s) >= Len(p)
  /\ SubSeq(s, 1, Len(p)) = p
  /\ Len(s) > Len(p) => s[Len(p) + 1] \in {CITATION_DELIM, VERSE_CHUNK_DELIM}

\* C11: a clause after the first that names no book is parsed with the work
\* and book of the clause before it, whether it is a chapter-only clause or
\* a chapter:verse clause; a first clause that names no book is refused.
C11_BookCarriedOver ==
  (Len(shown) = 1 /\ stage # "text") =>
    /\ \A first \in NamedClauseTexts, later \in UnnamedClauseTexts :
         shown[1] = first \o <<CITATION_DELIM, " ">> \o later =>
           /\ stage = "refs"
           /\ Len(refs) = 2
           /\ refs[2].work = refs[1].work
           /\ refs[2].book_index = refs[1].book_index
    /\ \A first \in UnnamedClauseTexts :
         StartsWithClause(shown[1], first) => stage = "rejected"

(***************************************************************************)
(* C12: the result of canonicalize is minimal: among its clauses of the    *)
(* same work and book no two chapter-only clauses are adjacent or          *)
(* overlapping, no two verse clauses of one chapter are adjacent or        *)
(* overlapping, and no verse clause lies in a chapter that a chapter-only  *)
(* clause covers.                                                          *)
(***************************************************************************)
IsChapterOnly(r) == r.range_type.tag = "StartEndChapter"

\* the ranges [a.start, a.end] and [b.start, b.end] touch or overlap
AdjacentOrOverlapping(a, b) ==
  /\ a.range_type.start <= b.range_type.end + 1
  /\ b.range_type.start <= a.range_type.end + 1

Mergeable(a, b) ==
  /\ a.work = b.work
  /\ a.book_index = b.book_index
  /\ IF IsChapterOnly(a) /\ IsChapterOnly(b) THEN AdjacentOrOverlapping(a, b)
     ELSE IF IsChapterOnly(a)
       THEN a.range_type.start <= b.range_type.chapter
            /\ b.range_type.chapter <= a.range_type.end
     ELSE IF IsChapterOnly(b)
       THEN b.range_type.start <= a.range_type.chapter
            /\ a.range_type.chapter <= b.range_type.end
     ELSE a.range_type.chapter = b.range_type.chapter /\ AdjacentOrOverlapping(a, b)

C12_ResultMinimal ==
  calls > 0 =>
    \A i \in DOMAIN refs, j \in DOMAIN refs : i # j => ~Mergeable(refs[i], refs[j])

(***************************************************************************)
(* C13: a chapter-only clause met while the running clause is a            *)
(* chapter-only clause of the same work and book is merged into it         *)
(* exactly when its start lies in [running.start, running.end + 1]; the    *)
(* merged clause spans the smaller start to the larger end, and a clause   *)
(* that is not merged is pushed as a clause of its own.                    *)
(***************************************************************************)
StartsInsideOrNextTo(r, running) ==
  /\ running.range_type.start <= r.range_type.start
  /\ r.range_type.start <= running.range_type.end + 1

C13_ChapterMergeExact ==
  \A i \in DOMAIN log :
    LET e == log[i]
    IN /\ (IsChapterOnly(e.r) /\ IsChapterOnly(e.was)
             /\ e.r.work = e.was.work /\ e.r.book_index = e.was.book_index) =>
            IF StartsInsideOrNextTo(e.r, e.was)
            THEN /\ e.branch = "chapter_union"
                 /\ e.now = VerseRangeReference(
                              StartEndChapter(
                                Min(e.was.range_type.start, e.r.range_type.start),
                                Max(e.was.range_type.end, e.r.range_type.end)),
                              e.r.book_index, e.r.work)
            ELSE e.branch = "push" /\ e.now = e.r
       /\ e.branch = "chapter_union" => IsChapterOnly(e.r) /\ IsChapterOnly(e.was)

\* "16, 18, 19" of one book: the second clause stays separate from the first
\* and the third, adjacent to the second, is merged into it
C13_Witness ==
  /\ calls = 1
  /\ Len(log) = 2
  /\ log[1].branch = "push"
  /\ IsChapterOnly(log[1].r) /\ IsChapterOnly(log[1].was)
  /\ log[1].r.work = log[1].was.work /\ log[1].r.book_index = log[1].was.book_index
  /\ log[1].r.range_type.start > log[1].was.range_type.end + 1
  /\ log[2].branch = "chapter_union"
  /\ log[2].r.range_type.start = log[2].was.range_type.end + 1
  /\ Len(refs) = 2

(***************************************************************************)
(* C14: canonicalize merges a clause with, or drops a clause in favour     *)
(* of, only a clause of the same work and the same book index: a clause    *)
(* met while the running clause is of another work or book is pushed       *)
(* unchanged, a merged clause keeps the work and book of both, and every   *)
(* (work, book) cited before the call is cited after it.                   *)
(***************************************************************************)
SameWorkAndBook(a, b) == a.work = b.work /\ a.book_index = b.book_index

WorksAndBooks(rs) == {<<rs[i].work, rs[i].book_index>> : i \in DOMAIN rs}

C14_NoMergeAcrossBooks ==
  /\ \A i \in DOMAIN log :
       /\ log[i].branch # "push" => SameWorkAndBook(log[i].r, log[i].was)
       /\ ~SameWorkAndBook(log[i].r, log[i].was) =>
            log[i].branch = "push" /\ log[i].now = log[i].r
       /\ SameWorkAndBook(log[i].now, log[i].r)
  /\ calls > 0 => WorksAndBooks(refs) = WorksAndBooks(before)

\* "Genesis 1; 1 Nephi 1": two works, the same book index, the same chapter
C14_Witness ==
  /\ calls = 1
  /\ Len(before) = 2
  /\ before[1].work # before[2].work
  /\ before[1].book_index = before[2].book_index
  /\ before[1].range_type = StartEndChapter(1, 1)
  /\ before[2].range_type = StartEndChapter(1, 1)
  /\ Len(refs) = 2
  /\ refs[1].work # refs[2].work

(***************************************************************************)
(* Citation strings with malformed clauses.  A string is one to            *)
(* MaxCitationChunks clauses joined by "; " or ","; a clause is a text     *)
(* with the (start, end) it denotes, or None when it is malformed.         *)
(***************************************************************************)
CitedClause(text, range) == [text |-> text, range |-> range]

WellFormedCitedClauses ==
  {CitedClause(<<"G", "e", "n", ".", " ", "1">>, Some(<<1, 1>>)),
   CitedClause(<<"2", " ", "N", "e", ".", " ", "1", ":", "2">>, Some(<<2, 2>>)),
   CitedClause(<<"1", ":", "1", "ndash", "2">>, Some(<<1, 2>>)),
   CitedClause(<<"2", "-", "3">>, Some(<<2, 3>>)),
   CitedClause(<<"1", " ", "N", "e", "p", "h", "i", " ", "3">>, Some(<<3, 3>>))}

MalformedCitedClauses ==
  {
   \* an unknown book name
   CitedClause(<<"F", "o", "o", " ", "1">>, None),
   \* an unknown book name before a chapter
   CitedClause(<<"F", "o", "o", " ", "1", ":", "2">>, None),
   \* a range a-b with a > b
   CitedClause(<<"G", "e", "n", ".", " ", "2", "ndash", "1">>, None),
   \* a range a-b with a = b
   CitedClause(<<"1", ":", "2", "-", "2">>, None),
   \* more than one dash
   CitedClause(<<"G", "e", "n", ".", " ", "1", "-", "2", "-", "3">>, None),
   \* more than one colon
   CitedClause(<<"G", "e", "n", ".", " ", "1", ":", "1", ":", "2">>, None),
   \* a number that does not parse
   CitedClause(<<"G", "e", "n", ".", " ", "1", ":", "x">>, None),
   \* no number at all
   CitedClause(<<"G", "e", "n", ".", " ">>, None),
   \* the empty clause
   CitedClause(<<>>, None)}

CitedClauses == WellFormedCitedClauses \cup MalformedCitedClauses

InitMalformed ==
  /\ CliIdle
  /\ \E k \in 1..MaxCitationChunks :
       \E chunks \in [1..k -> CitedClauses], separators \in [1..k - 1 -> SeparatorTexts] :
         shown = <<Join([i \in 1..k |-> chunks[i].text], separators)>>
  /\ stage = "text"
  /\ refs = <<>>
  /\ before = <<>>
  /\ log = <<>>
  /\ calls = 0
  /\ sortImpl = "insert_head"
  /\ ParserIdle
  /\ LookupIdle

SpecMalformed == InitMalformed /\ [][NextCite]_vars

\* the clause texts of a citation string: the pieces between the separators,
\* without the space that follows a semicolon
ClauseTextsOf(s) ==
  LET pieces == Split(s, {CITATION_DELIM, VERSE_CHUNK_DELIM})
  IN [i \in DOMAIN pieces |->
        IF pieces[i] # <<>> /\ pieces[i][1] = " " THEN Tail(pieces[i]) ELSE pieces[i]]

RangeCited(text) == (CHOOSE c \in CitedClauses : c.text = text).range

\* C15: parsing a citation string is all-or-nothing: it gives either a
\* collection with one clause for each clause text, in the order cited and
\* with the start and end cited, or an error and no collection; a string
\* with a malformed clause anywhere in it is refused.
C15_AllOrNothing ==
  (Len(shown) = 1 /\ stage # "text") =>
    LET texts == ClauseTextsOf(shown[1])
    IN IF stage = "refs"
       THEN /\ Len(refs) = Len(texts)
            /\ \A i \in DOMAIN texts :
                 /\ IsSome(RangeCited(texts[i]))
                 /\ <<refs[i].range_type.start, refs[i].range_type.end>>
                      = Unwrap(RangeCited(texts[i]))
       ELSE /\ stage = "rejected"
            /\ refs = <<>>

\* a malformed clause between two well-formed ones has been refused
C15_Witness ==
  /\ stage = "rejected"
  /\ LET texts == ClauseTextsOf(shown[1])
     IN /\ Len(texts) = 3
        /\ IsSome(RangeCited(texts[1]))
        /\ IsNone(RangeCited(texts[2]))
        /\ IsSome(RangeCited(texts[3]))
        /\ FromStr(texts[1]).ok

(***************************************************************************)
(* A citation string parsed and the collection canonicalized, once or      *)
(* more: s.parse::<RangeCollection>() followed by canonicalize().          *)
(***************************************************************************)
ParseCanonTexts ==
  {c.text : c \in WellFormedCitedClauses} \cup
  {<<"G", "e", "n", ".", " ", "1", ":", "1">>,
   <<"G", "e", "n", ".", " ", "1", "-", "2">>,
   <<"1">>,
   <<"1", ":", "1">>,
   \* a-b with a > b
   <<"G", "e", "n", ".", " ", "2", "ndash", "1">>,
   \* a-b with a = b
   <<"1", ":", "2", "-", "2">>,
   \* the empty clause
   <<>>}

InitParseCanon ==
  /\ CliIdle
  /\ \E k \in 1..MaxCitationChunks :
       \E chunks \in [1..k -> ParseCanonTexts], separators \in [1..k - 1 -> SeparatorTexts] :
         shown = <<Join(chunks, separators)>>
  /\ stage = "text"
  /\ refs = <<>>
  /\ before = <<>>
  /\ log = <<>>
  /\ calls = 0
  /\ sortImpl \in SortImpls
  /\ ParserIdle
  /\ LookupIdle

NextParseCanon == FromStrCall \/ Canonicalize

SpecParseCanon == InitParseCanon /\ [][NextParseCanon]_vars

Dashes == {RANGE_DELIM_CANONICAL, RANGE_DELIM_NON_CANONICAL1, RANGE_DELIM_NON_CANONICAL2}

IsDashed(text) == \E k \in DOMAIN text : text[k] \in Dashes

\* C16: every clause has start <= end, after parsing and after every call
\* of canonicalize; a clause parsed from a dashed pair a-b has a < b and a
\* clause parsed from a bare number n is (n, n).
C16_StartNotAfterEnd ==
  /\ \A i \in DOMAIN refs : refs[i].range_type.start <= refs[i].range_type.end
  /\ (stage = "refs" /\ calls = 0) =>
       LET texts == ClauseTextsOf(shown[1])
       IN \A i \in DOMAIN refs :
            IF IsDashed(texts[i])
            THEN refs[i].range_type.start < refs[i].range_type.end
            ELSE refs[i].range_type.start = refs[i].range_type.end

\* a parsed collection with a dashed and a bare clause has been
\* canonicalized twice, and the first call merged two of its clauses
C16_Witness ==
  /\ calls = MaxCalls
  /\ \E i \in DOMAIN refs : refs[i].range_type.start < refs[i].range_type.end
  /\ \E t \in {ClauseTextsOf(shown[1])} :
       /\ \E i \in DOMAIN t : IsDashed(t[i])
       /\ \E i \in DOMAIN t : ~IsDashed(t[i])
  /\ Len(refs) < Len(ClauseTextsOf(shown[1]))

\* C17: a citation string that parses gives at least one clause, so that
\* canonicalize is never called on an empty collection, and canonicalize
\* of a non-empty collection gives a non-empty collection.
C17_NeverEmpty ==
  /\ stage = "refs" => Len(refs) >= 1
  /\ calls > 0 => Len(before) >= 1 /\ Len(refs) >= 1

\* three parsed clauses have been canonicalized into one, twice
C17_Witness ==
  /\ stage = "refs"
  /\ Len(ClauseTextsOf(shown[1])) = MaxCitationChunks
  /\ calls = MaxCalls
  /\ Len(refs) = 1
  /\ Len(log) = 0

(***************************************************************************)
(* C18: the corpus parser expects a book title first: the parse of a text  *)
(* whose first block is a verse, a chapter heading or a description does   *)
(* not succeed, whatever blocks follow.                                    *)
(***************************************************************************)
FirstBlockIsTitle == ChunkTypeNew(consumed[1]).kind = "BookTitle"

C18_TitleExpectedFirst ==
  (consumed # <<>> /\ ~FirstBlockIsTitle) =>
    /\ ~ParseOk
    /\ parsed.state = "Err" =>
         parsed.error.err = "CorpusInvalid"

(***************************************************************************)
(* C19: the corpus parser fails at the first block whose (previous kind,   *)
(* kind) pair is outside the transition table, with an error that names    *)
(* the block, and the parse then never succeeds; a block whose pair is     *)
(* inside the table is accepted, unless it is a verse whose number is not  *)
(* the expected one.                                                       *)
(***************************************************************************)
InTransitionTable(prev, cur) ==
  CASE cur = "BookTitle" -> prev = "Verse"
    [] cur = "BookDescription" -> prev = "BookTitle"
    [] cur = "ChapterStart" -> prev \in {"BookTitle", "BookDescription", "Verse"}
    [] cur = "Verse" -> prev \in {"BookTitle", "BookDescription", "ChapterStart", "Verse"}
    [] OTHER -> FALSE

Misplaced(cur) ==
  CASE cur = "BookTitle" -> "Book title in incorrect location"
    [] cur = "BookDescription" -> "Book description in incorrect location"
    [] cur = "ChapterStart" -> "Chapter start in incorrect location"
    [] cur = "Verse" -> "Verse in incorrect location"
    [] OTHER -> "Unrecognized line"

TransitionChecked ==
  LET cur == ChunkTypeNew(consumed'[Len(consumed')])
  IN /\ Len(consumed') = Len(consumed) + 1 =>
          IF InTransitionTable(previous_chunk.kind, cur.kind)
          THEN \/ /\ parsed'.state = "running"
                  /\ previous_chunk' = cur
               \/ /\ cur.kind = "Verse"
                  /\ parsed'.state = "Err"
                  /\ parsed'.error.why = "Parser thought this verse was"
          ELSE /\ parsed' = Parsed("Err", CorpusInvalid(Misplaced(cur.kind),
                                                        Len(consumed'), 0, 0))
               /\ books' = books
     /\ parsed.state = "Err" => parsed'.state = "Err"

NoBooksFound == Parsed("Err", CorpusInvalid("No books found", 0, 0, 0))

EndChecked ==
  /\ (parsed.state = "running" /\ parsed'.state # "running" /\ consumed' = consumed) =>
       /\ books' = books
       /\ IF books = <<>> THEN parsed' = NoBooksFound ELSE parsed' = Parsed("Ok", NoError)
  /\ parsed' = NoBooksFound => books' = <<>>
  /\ parsed'.state = "Ok" => Len(books') >= 1
  /\ (consumed' = <<>> /\ parsed'.state # "running") => parsed' = NoBooksFound

C20_NoBooksFound == [][EndChecked]_vars

\* a text of blocks that were all accepted and produced no Book has failed
C20_Witness ==
  /\ parsed = NoBooksFound
  /\ Len(consumed) >= 2
  /\ books = <<>>

(***************************************************************************)
(* The verse iterator run over a corpus: bom.verses() and calls of next(). *)
(* A corpus has up to MaxIterBooks books; a book may have no chapter and a *)
(* chapter no verse.  returned holds what the calls of next() on the       *)
(* current iterator returned.                                              *)
(***************************************************************************)
MaxIterBooks == 2
MaxNextCalls == 10

IterCorpusShapes == UNION {[1..n -> ChapterShapes] : n \in 0..MaxIterBooks}

InitIter ==
  /\ CliIdle
  /\ books \in {MakeCorpus(sh) : sh \in IterCorpusShapes}
  /\ consumed = <<>>
  /\ previous_chunk = Chunk("Verse", 0)
  /\ parsed = Parsed("Ok", NoError)
  /\ asked = NoReference
  /\ answer = Answer("none", FALSE, <<>>, <<>>, None, FALSE)
  /\ iter = bom_verses
  /\ returned = <<>>
  /\ refs = <<>>
  /\ before = <<>>
  /\ log = <<>>
  /\ calls = 0
  /\ sortImpl = "insert_head"
  /\ CiteIdle

\* iter.next()
VerseIterNextCall ==
  /\ calls < MaxNextCalls
  /\ LET r == VerseIterNext(iter, books)
     IN /\ iter' = r.iter
        /\ returned' = Append(returned, r.item)
  /\ calls' = calls + 1
  /\ UNCHANGED <<refs, before, log, sortImpl, parserVars, asked, answer, citeVars, cliVars>>

\* let iter = bom.verses(), once the iterator before it has returned None
VersesCall ==
  /\ returned # <<>>
  /\ IsNone(returned[Len(returned)])
  /\ calls < MaxNextCalls
  /\ iter' = bom_verses
  /\ returned' = <<>>
  /\ calls' = calls + 1
  /\ UNCHANGED <<refs, before, log, sortImpl, parserVars, asked, answer, citeVars, cliVars>>

NextIter == VerseIterNextCall \/ VersesCall

SpecIter == InitIter /\ [][NextIter]_vars

\* the verses of a corpus in document order, as the items the iterator gives
RECURSIVE ItemsFrom(_, _, _)
ItemsFrom(bs, b, c) ==
  IF b > Len(bs) THEN <<>>
  ELSE IF c > Len(bs[b].chapters) THEN ItemsFrom(bs, b + 1, 1)
  ELSE [v \in DOMAIN bs[b].chapters[c].verses |->
          Some(VerseItem(bs[b], bs[b].chapters[c].verses[v]))]
         \o ItemsFrom(bs, b, c + 1)

AllItems(bs) == ItemsFrom(bs, 1, 1)

\* C21: the iterator over a corpus gives every verse of the corpus exactly
\* once and in document order: when next() has returned None, the items
\* returned before it are all the verses of the corpus, in order.
C21_EveryVerseOnce ==
  (returned # <<>> /\ IsNone(returned[Len(returned)])) =>
    \E n \in DOMAIN returned :
      /\ SubSeq(returned, 1, n - 1) = AllItems(books)
      /\ \A k \in n..Len(returned) : IsNone(returned[k])

(***************************************************************************)
(* C30: the iterator terminates: next() returns None within (number of     *)
(* verses + 1) calls; once it has returned None every later call returns   *)
(* None and leaves the cursor unchanged; a new iterator starts at the      *)
(* first verse again.                                                      *)
(***************************************************************************)
FirstItem(bs) ==
  IF bs # <<>> /\ bs[1].chapters # <<>> /\ bs[1].chapters[1].verses # <<>>
  THEN Some(VerseItem(bs[1], bs[1].chapters[1].verses[1]))
  ELSE None

EndsAndStaysEnded(rs, bs) ==
  /\ Len(rs) >= Len(AllItems(bs)) + 1 =>
       \E n \in 1..Len(AllItems(bs)) + 1 : IsNone(rs[n])
  /\ \A i \in DOMAIN rs, j \in DOMAIN rs : (i < j /\ IsNone(rs[i])) => IsNone(rs[j])
  /\ rs # <<>> => rs[1] = FirstItem(bs)

IterStepChecked ==
  /\ EndsAndStaysEnded(returned', books')
  /\ (Len(returned') = Len(returned) + 1 /\ IsNone(returned'[Len(returned')])) =>
       iter' = iter
  /\ returned' = <<>> => iter' = bom_verses

C30_IteratorTerminates == [][IterStepChecked]_vars

\* every verse of a corpus of two books was returned, then None twice
C30_Witness ==
  /\ Len(books) = MaxIterBooks
  /\ Len(AllItems(books)) >= 4
  /\ Len(returned) = Len(AllItems(books)) + 2
  /\ SubSeq(returned, 1, Len(AllItems(books))) = AllItems(books)

(***************************************************************************)
(* A citation string parsed, canonicalized or not, formatted and parsed    *)
(* again: s.parse::<RangeCollection>(), canonicalize(), to_string().       *)
(***************************************************************************)
NextRoundTrip == FromStrCall \/ Canonicalize \/ ToStringCall

SpecRoundTrip == InitParseCanon /\ [][NextRoundTrip]_vars

\* refs has just been formatted into the last string of shown
JustFormatted == stage = "text" /\ Len(shown) >= 2 /\ shown[Len(shown)] = Display(refs)

\* what formatting wrote for the i-th clause of rs
WrittenFor(rs, i) ==
  SubSeq(Display(SubSeq(rs, 1, i)), Len(Display(SubSeq(rs, 1, i - 1))) + 1,
         Len(Display(SubSeq(rs, 1, i))))

HasChapterPrefix(text) == \E k \in DOMAIN text : text[k] = CHAPTER_VERSE_DELIM

SameChapterVerseBefore(rs, i) ==
  /\ i > 1
  /\ ~IsChapterOnly(rs[i - 1])
  /\ SameWorkAndBook(rs[i - 1], rs[i])
  /\ rs[i - 1].range_type.chapter = rs[i].range_type.chapter

\* C22: in the formatted string a verse clause is written without its
\* "chapter:" prefix, joined with ", ", exactly when the clause just before
\* it is a verse clause of the same work, book and chapter; otherwise it is
\* written as "chapter:start" or "chapter:start-end".
C22_ChapterPrefix ==
  JustFormatted =>
    \A i \in DOMAIN refs :
      ~IsChapterOnly(refs[i]) =>
        IF SameChapterVerseBefore(refs, i)
        THEN WrittenFor(refs, i) = <<VERSE_CHUNK_DELIM, " ">>
                                     \o WriteRange(refs[i].range_type.start,
                                                   refs[i].range_type.end)
        ELSE /\ HasChapterPrefix(WrittenFor(refs, i))
             /\ \E k \in 0..Len(WrittenFor(refs, i)) :
                  SubSeq(WrittenFor(refs, i), k + 1, Len(WrittenFor(refs, i)))
                    = FormatUsize(refs[i].range_type.chapter) \o <<CHAPTER_VERSE_DELIM>>
                        \o WriteRange(refs[i].range_type.start, refs[i].range_type.end)

\* C24: the string formatted from a collection that was parsed and
\* canonicalized parses again, and gives back that collection clause for
\* clause.
C24_CanonicalTextReadsBack ==
  (JustFormatted /\ Len(shown) = 2 /\ calls >= 1) =>
    /\ FromStr(shown[2]).ok
    /\ FromStr(shown[2]).val = refs

(***************************************************************************)
(* The command line program's corpus loader, get_bom, run against a        *)
(* snapshot file in any state.  The default corpus either parses to books  *)
(* or fails to parse; the file system decides whether a removal, a         *)
(* creation and a write succeed.                                           *)
(***************************************************************************)
MaxRuns == 4

SnapshotStates == {"absent", "unreadable", "corrupt", "valid"}

DefaultCorpora == {MakeCorpus(<< <<1>> >>), MakeCorpus(<< <<2, 1>> >>)}

SnapshotCorpora == DefaultCorpora \cup {MakeCorpus(<< <<1, 1>>, <<2>> >>)}

Snapshots ==
  {Snapshot(st, <<>>) : st \in SnapshotStates \ {"valid"}} \cup
  {Snapshot("valid", c) : c \in SnapshotCorpora}

\* if delete_cache { fs::remove_file(&file_path)?; }: removing a file that
\* does not exist is an error, removing one that exists is up to the file system
RemoveFile(snap, remove_ok) ==
  IF snap.state # "absent" /\ remove_ok
  THEN [ok |-> TRUE, cache |-> Snapshot("absent", <<>>)]
  ELSE [ok |-> FALSE, cache |-> snap]

\* fs::read(&file_path) then bincode::deserialize: Some(bom) from a valid
\* snapshot, None when the read or the deserialization fails
ReadCache(snap) == IF snap.state = "valid" THEN Some(snap.bom) ELSE None

\* BOM::from_default_parser()
FromDefaultParser(p, bs) ==
  IF p.state = "Ok" THEN [ok |-> TRUE, bom |-> bs] ELSE [ok |-> FALSE, bom |-> <<>>]

\* if let Ok(out_file) = fs::File::create(&file_path) { let _ = serialize_into(..) }:
\* create truncates the file, a failed write leaves bytes that do not deserialize
WriteCache(snap, bom, create_ok, serialize_ok) ==
  IF ~create_ok THEN snap
  ELSE IF serialize_ok THEN Snapshot("valid", bom)
  ELSE Snapshot("corrupt", <<>>)

\* fn get_bom(delete_cache: bool) -> Result<BOM>
GetBomRun(snap, delete_cache, remove_ok, create_ok, serialize_ok, p, bs) ==
  LET removed == IF delete_cache THEN RemoveFile(snap, remove_ok)
                 ELSE [ok |-> TRUE, cache |-> snap]
      cached == ReadCache(removed.cache)
      fresh == FromDefaultParser(p, bs)
  IN IF ~removed.ok
     THEN [cache |-> snap, loaded |-> Loaded("Err", <<>>, "remove_file", FALSE)]
     ELSE IF IsSome(cached)
     THEN [cache |-> removed.cache, loaded |-> Loaded("Ok", Unwrap(cached), "", TRUE)]
     ELSE IF ~fresh.ok
     THEN [cache |-> removed.cache, loaded |-> Loaded("Err", <<>>, "parse", FALSE)]
     ELSE [cache |-> WriteCache(removed.cache, fresh.bom, create_ok, serialize_ok),
           loaded |-> Loaded("Ok", fresh.bom, "", FALSE)]

InitCli ==
  /\ cache \in Snapshots
  /\ loaded = Loaded("none", <<>>, "", FALSE)
  /\ \/ /\ parsed = Parsed("Ok", NoError)
        /\ books \in DefaultCorpora
     \/ /\ parsed = Parsed("Err", CorpusInvalid("misplaced", 1, 0, 0))
        /\ books = <<>>
  /\ consumed = <<>>
  /\ previous_chunk = Chunk("Verse", 0)
  /\ CanonIdle
  /\ LookupIdle
  /\ CiteIdle

\* one run of the program: let bom = get_bom(matches.is_present("delete_cache"))?
GetBom ==
  /\ calls < MaxRuns
  /\ \E delete_cache \in BOOLEAN, remove_ok \in BOOLEAN,
        create_ok \in BOOLEAN, serialize_ok \in BOOLEAN :
       LET r == GetBomRun(cache, delete_cache, remove_ok, create_ok, serialize_ok,
                          parsed, books)
       IN /\ cache' = r.cache
          /\ loaded' = r.loaded
  /\ calls' = calls + 1
  /\ UNCHANGED <<refs, before, log, sortImpl, parserVars, lookupVars, citeVars>>

NextCli == GetBom

SpecCli == InitCli /\ [][NextCli]_vars

\* C23: whenever the default corpus parses, a run of get_bom returns a corpus,
\* whatever the state of the snapshot file and the value of delete_cache.
C23_LoaderNeverFatal ==
  (calls >= 1 /\ parsed.state = "Ok") => loaded.result = "Ok"

(***************************************************************************)
(* The comparison that canonicalize sorts with, on the clauses of the      *)
(* collection a call of canonicalize was given.                            *)
(***************************************************************************)
Reversed(o) == IF o = "Less" THEN "Greater" ELSE IF o = "Greater" THEN "Less" ELSE "Equal"

NotGreater(a, b) == RefCmp(a, b) # "Greater"

\* C25: the comparison the clauses are sorted with is a total order fit for
\* sorting: cmp(a, b) is the reverse of cmp(b, a), and it is transitive, also
\* through Equal and between chapter-range and verse-range clauses of one book.
C25_TotalOrder ==
  calls >= 1 =>
    \A i \in DOMAIN before, j \in DOMAIN before, k \in DOMAIN before :
      LET a == before[i]
          b == before[j]
          c == before[k]
      IN /\ RefCmp(a, b) = Reversed(RefCmp(b, a))
         /\ (NotGreater(a, b) /\ NotGreater(b, c)) => NotGreater(a, c)
         /\ (RefCmp(a, b) = "Equal" /\ RefCmp(b, c) = "Equal") => RefCmp(a, c) = "Equal"

(***************************************************************************)
(* What a parse made of the blocks it consumed: the blocks of each kind,   *)
(* the part of the text that belongs to a book, the chapters and verses    *)
(* stored.                                                                 *)
(***************************************************************************)
KindAt(i) == ChunkTypeNew(consumed[i]).kind

BlocksOfKind(kind) == {i \in DOMAIN consumed : KindAt(i) = kind}

\* the blocks from the title of the book titled t up to the next title
BlocksOfBook(t) ==
  {i \in DOMAIN consumed :
     /\ i > t
     /\ \A j \in (t + 1)..i : KindAt(j) # "BookTitle"}

\* the first verse block of the book titled t comes before any chapter heading
FirstVerseOpensChapter(t) ==
  \E i \in BlocksOfBook(t) :
    /\ KindAt(i) = "Verse"
    /\ \A j \in (t + 1)..(i - 1) : KindAt(j) \notin {"Verse", "ChapterStart"}

ChaptersExpected(t) ==
  Cardinality({i \in BlocksOfBook(t) : KindAt(i) = "ChapterStart"})
    + (IF FirstVerseOpensChapter(t) THEN 1 ELSE 0)

RECURSIVE VerseCount(_, _)
\* the verses stored in the chapters k.. of a book
VerseCount(book, k) ==
  IF k > Len(book.chapters) THEN 0
  ELSE Len(book.chapters[k].verses) + VerseCount(book, k + 1)

RECURSIVE TotalVerses(_, _)
\* the verses stored in the books b.. of a corpus
TotalVerses(bs, b) ==
  IF b > Len(bs) THEN 0 ELSE VerseCount(bs[b], 1) + TotalVerses(bs, b + 1)

RECURSIVE TotalChapters(_, _)
TotalChapters(bs, b) ==
  IF b > Len(bs) THEN 0 ELSE Len(bs[b].chapters) + TotalChapters(bs, b + 1)

\* the block just consumed was a verse block and was accepted
VerseAccepted ==
  /\ Len(consumed') = Len(consumed) + 1
  /\ ChunkTypeNew(consumed'[Len(consumed')]).kind = "Verse"
  /\ parsed'.state = "running"

ChapterCountsChecked ==
  parsed.state = "Ok" =>
    \A b \in DOMAIN books : Len(books[b].chapters) = ChaptersExpected(books[b].title)

VerseAppendedChecked ==
  VerseAccepted =>
    /\ books' # <<>>
    /\ LET book == books'[Len(books')]
           id == Len(consumed')
       IN /\ book.chapters # <<>>
          /\ book.chapters[Len(book.chapters)].verses # <<>>
          /\ LET verses == book.chapters[Len(book.chapters)].verses
             IN verses[Len(verses)] = Verse(id)
          /\ Len(books') = Len(books)
          /\ Len(book.chapters) =
               Len(books[Len(books)].chapters)
                 + (IF previous_chunk.kind \in {"BookTitle", "BookDescription"} THEN 1 ELSE 0)
          /\ TotalVerses(books', 1) = TotalVerses(books, 1) + 1

\* C26: in a successfully parsed corpus a book has as many chapters as there are
\* chapter headings between its title and the next title, plus one if its first
\* verse block directly follows its title or description; a verse after a title
\* or a description opens one chapter, a verse after a chapter heading or a
\* verse opens none, and every verse is appended to the last chapter of the
\* last book.
C26_ChaptersOpened == [][ChapterCountsChecked' /\ VerseAppendedChecked]_vars

\* C27: after a successful parse every chapter of every book holds at least one
\* verse, also when the text ends with a chapter heading.
C27_NoEmptyChapter ==
  parsed.state = "Ok" =>
    \A b \in DOMAIN books : \A c \in DOMAIN books[b].chapters :
      books[b].chapters[c].verses # <<>>

\* C28: a successful parse drops no block: there are as many books as title
\* blocks, as many verses stored as verse blocks, and as many chapters as
\* chapter headings and implicitly opened chapters.
C28_NoBlockDropped ==
  parsed.state = "Ok" =>
    /\ Len(books) = Cardinality(BlocksOfKind("BookTitle"))
    /\ TotalVerses(books, 1) = Cardinality(BlocksOfKind("Verse"))
    /\ TotalChapters(books, 1) >= Cardinality(BlocksOfKind("ChapterStart"))

(***************************************************************************)
(* Lookups with clauses of every work.  BOOK_DATA gives Genesis (Old       *)
(* Testament) and 1 Nephi (Book of Mormon) the same book index; a          *)
(* collection holds one clause, or a clause and its like in another work.  *)
(***************************************************************************)
WorkClauses ==
  {VerseRangeReference(rt, BOOK_DATA[i].book_index, BOOK_DATA[i].work) :
     rt \in {x \in LookupRangeTypes : x.start <= x.end}, i \in DOMAIN BOOK_DATA}

WorkCollections ==
  {<<c>> : c \in WorkClauses} \cup
  {<<c, [c EXCEPT !.work = w]>> : c \in WorkClauses, w \in Work}

\* RangeCollection::is_valid(&self, bom), the collection of any work
IsValidOfWork ==
  /\ answer.op = "none"
  /\ \E c \in WorkCollections :
       /\ refs' = c
       /\ answer' = Answer("is_valid", CollectionIsValid(c, books), <<>>, <<>>, None, FALSE)
  /\ UNCHANGED <<before, log, calls, sortImpl, parserVars, asked, iter, returned, citeVars, cliVars>>

\* RangeCollection::verse_refs(&self, bom), collected, the collection of any work
VerseRefsOfWork ==
  /\ answer.op = "none"
  /\ \E c \in WorkCollections :
       LET r == verse_refs(c, books)
       IN /\ refs' = c
          /\ answer' = Answer("verse_refs", FALSE, r.data, <<>>, None, r.panic)
  /\ UNCHANGED <<before, log, calls, sortImpl, parserVars, asked, iter, returned, citeVars, cliVars>>

NextWork == IsValidOfWork \/ VerseRefsOfWork

SpecWork == InitLookup /\ [][NextWork]_vars

\* the collection with every clause moved to the work w
InWork(rs, w) == [i \in DOMAIN rs |-> [rs[i] EXCEPT !.work = w]]

\* C29: validity and expansion ignore the work of a clause: the collection
\* moved to any other work is valid against the same corpus and expands to the
\* same references, and every reference produced is tagged Book of Mormon.
C29_WorkIgnored ==
  /\ answer.op = "is_valid" =>
       \A w \in Work : CollectionIsValid(InWork(refs, w), books) = answer.valid
  /\ answer.op = "verse_refs" =>
       /\ \A w \in Work :
            verse_refs(InWork(refs, w), books) = [data |-> answer.data, panic |-> answer.panic]
       /\ \A i \in DOMAIN answer.data : answer.data[i].work = "BookOfMormon"

\* a clause of Genesis has been expanded to references into the corpus
C29_Witness ==
  /\ answer.op = "verse_refs"
  /\ Len(refs) = 1
  /\ refs[1].work = "OldTestament"
  /\ answer.data # <<>>
  /\ ~answer.panic
====
